---- MODULE Spec2Model ----
(***************************************************************************)
(* HeinerCast episode generation pipeline (app/api/generation.py,          *)
(* app/api/episodes.py and the services they call).                        *)
(*                                                                         *)
(* One episode is followed through the generation endpoints, and one       *)
(* project through the creation and deletion of its episodes (`project`,   *)
(* the Episode rows of the project with what those handlers read).         *)
(* `service` is a call of a service class, followed on its own: of         *)
(* CoverService its submit/poll cycles and how it ended, of                *)
(* ElevenLabsService the lines, the parts and the requests sent.           *)
(* `episode`    *)
(* is the Episode row as the handlers see and leave it, `files` is the     *)
(* content of the directory settings.storage_path, `run` is the request    *)
(* being served (at most one at a time in this specification) and `last`   *)
(* records how the previous request ended.  A handler is cut at its        *)
(* external calls: Begin<Op> runs up to the commit that publishes the      *)
(* in-progress status, Finish<Op> takes the outcome of the external calls  *)
(* and runs to the end of the handler.                                     *)
(*                                                                         *)
(* Optional values: a nullable URL is 0 (None) or a positive file name,    *)
(* a nullable JSON or text column is <<>> (None) or <<value>>.             *)
(***************************************************************************)
EXTENDS Integers, Sequences, FiniteSets, TLC

VARIABLES storage_path, project, service, episode, files, uuid, run, last

vars == <<storage_path, project, service, episode, files, uuid, run, last>>

\* Number of files the model lets the handlers create (uuid4 names are fresh).
MaxBlobs == 3

\* Number of script lines the model passes to the voice service.
MaxLines == 4

\* Number of episodes the model lets a project hold at a time.
MaxEpisodes == 3

None == <<>>

Some(v) == <<v>>

-----------------------------------------------------------------------------
(* EpisodeStatus and its pipeline order *)

EpisodeStatus ==
    { "draft", "script_generating", "script_done", "voiceover_generating",
      "voiceover_done", "sounds_generating", "sounds_done", "music_generating",
      "music_done", "merging", "audio_done", "cover_generating", "done", "error" }

\* Position of a status in the pipeline order
\* DRAFT < SCRIPT_* < VOICEOVER_* < SOUNDS_* < MUSIC_* < MERGING < AUDIO_DONE
\* < COVER_GENERATING < DONE, the order in which EpisodeStatus lists them.
StatusRank(s) ==
    CASE s = "draft"                -> 0
      [] s = "script_generating"    -> 1
      [] s = "script_done"          -> 2
      [] s = "voiceover_generating" -> 3
      [] s = "voiceover_done"       -> 4
      [] s = "sounds_generating"    -> 5
      [] s = "sounds_done"          -> 6
      [] s = "music_generating"     -> 7
      [] s = "music_done"           -> 8
      [] s = "merging"              -> 9
      [] s = "audio_done"           -> 10
      [] s = "cover_generating"     -> 11
      [] s = "done"                 -> 12
      [] OTHER                      -> 0 - 1

-----------------------------------------------------------------------------
(* Request schemas: the attributes a request object has.  Reading any      *)
(* other attribute of a pydantic model raises AttributeError.              *)

RequestFields(schema) ==
    CASE schema = "GenerateScriptRequest" -> {"custom_prompt", "temperature"}
      [] schema = "GenerateSoundsRequest" ->
             {"prompt_influence", "default_duration_seconds"}
      [] schema = "GenerateMusicRequest"  -> {"force_instrumental"}
      [] schema = "MergeAudioRequest"     ->
             {"voice_volume", "sounds_volume", "music_volume"}
      [] schema = "GenerateCoverRequest"  ->
             {"variants_count", "reference_image_url", "custom_prompt"}
      [] schema = "GenerateFullRequest"   ->
             {"generate_cover", "cover_variants_count",
              "cover_reference_image_url", "voice_volume", "sounds_volume",
              "music_volume"}
      [] OTHER -> {}

HasAttr(schema, name) == name \in RequestFields(schema)

\* An exception: its class and str(e), a tuple of words.
Exception(type, message) == [type |-> type, message |-> message]

AttributeError(schema, name) ==
    Exception("AttributeError", <<schema, "object has no attribute", name>>)

BusinessLogicError(message) == Exception("BusinessLogicError", <<message>>)

NoException == Exception("", <<>>)

-----------------------------------------------------------------------------
(* Scripts.  A script is a JSON object: the set of its keys, its title and *)
(* its lines; a line has a text length and a sound_effect ("" for null).   *)

Line(len, sfx) == [text |-> len, sound_effect |-> sfx]

Script(keys, title, lines) == [keys |-> keys, story_title |-> title, lines |-> lines]

ScriptKeys == {"story_title", "genre_tone", "lines", "approx_duration_minutes"}

\* bool(d) of a dict
DictTruthy(d) == d.keys # {}

\* script.get("lines", [])
GetLines(script) == IF "lines" \in script.keys THEN script.lines ELSE <<>>

\* script.get("story_title")
GetStoryTitle(script) ==
    IF "story_title" \in script.keys THEN script.story_title ELSE ""

-----------------------------------------------------------------------------
(* LLMService._parse_script_response.  A response of the model is a text:  *)
(* possibly prose around a fenced block, whose body is not JSON, a JSON    *)
(* scalar or a JSON object with keys and lines; a line of the response is  *)
(* an object with keys.                                                    *)

RawLine(keys, len, sfx) == [keys |-> keys, text |-> len, sound_effect |-> sfx]

Response(fence, prose, json, keys, title, lines) ==
    [fence |-> fence, prose |-> prose, json |-> json, keys |-> keys,
     story_title |-> title, lines |-> lines]

GoodLine == RawLine({"speaker", "voice_id", "text", "sound_effect"}, 3, "")

CueLine == RawLine({"speaker", "text", "sound_effect"}, 2, "door")

BareLine == RawLine({"speaker", "text"}, 3, "")

\* The responses the model lets the script writer return.
Responses ==
    { Response("none", FALSE, "object", ScriptKeys, "T1", <<GoodLine>>),
      Response("json", TRUE, "object", ScriptKeys \ {"approx_duration_minutes"},
               "T2", <<CueLine, BareLine>>),
      Response("plain", TRUE, "object", ScriptKeys, "", <<BareLine>>),
      Response("none", TRUE, "object", ScriptKeys, "T1", <<GoodLine>>),
      Response("none", FALSE, "text", {}, "", <<>>),
      Response("none", FALSE, "scalar", {}, "", <<>>),
      Response("none", FALSE, "object", {"genre_tone", "lines"}, "", <<GoodLine>>),
      Response("none", FALSE, "object", {"story_title", "lines"}, "T1", <<GoodLine>>),
      Response("json", FALSE, "object", {"story_title", "genre_tone"}, "T1", <<>>),
      Response("none", FALSE, "object", ScriptKeys, "T1", <<>>),
      Response("none", FALSE, "object", ScriptKeys, "T1",
               <<GoodLine, RawLine({"text"}, 3, "")>>),
      Response("none", FALSE, "object", ScriptKeys, "T1",
               <<RawLine({"speaker", "voice_id"}, 0, "")>>) }

\* The script writer did not reply (the HTTP call failed).
NoReply == Response("none", FALSE, "no_reply", {}, "", <<>>)

\* The text handed to json.loads: the body of the fenced block when the
\* response has one, else the whole response, prose included.
JsonText(response) ==
    IF response.fence \in {"json", "plain"}
    THEN [response EXCEPT !.prose = FALSE]
    ELSE response

LLMProviderError(message) == Exception("LLMProviderError", message)

\* The line as the validation loop leaves it: voice_id and sound_effect are
\* defaulted, nothing else is added.
DefaultLine(line) == Line(line.text, line.sound_effect)

\* Result of _parse_script_response: [ok, script, exc].
ParseScriptResponse(response) ==
    LET text == JsonText(response) IN
    IF text.prose \/ text.json = "text"
    THEN [ok |-> FALSE, script |-> Script({}, "", <<>>),
          exc |-> LLMProviderError(<<"Failed to parse script response as JSON">>)]
    ELSE IF text.json = "scalar"
    THEN [ok |-> FALSE, script |-> Script({}, "", <<>>),
          exc |-> Exception("TypeError", <<"argument is not iterable">>)]
    ELSE IF {"story_title", "genre_tone", "lines"} \ text.keys # {}
    THEN [ok |-> FALSE, script |-> Script({}, "", <<>>),
          exc |-> LLMProviderError(<<"Invalid script structure", "Missing required field">>)]
    ELSE IF Len(text.lines) = 0
    THEN [ok |-> FALSE, script |-> Script({}, "", <<>>),
          exc |-> LLMProviderError(<<"Invalid script structure", "Script must have at least one line">>)]
    ELSE IF \E i \in 1..Len(text.lines) :
                {"speaker", "text"} \ text.lines[i].keys # {}
    THEN [ok |-> FALSE, script |-> Script({}, "", <<>>),
          exc |-> LLMProviderError(<<"Invalid script structure", "Each line must have 'speaker' and 'text' fields">>)]
    ELSE [ok |-> TRUE,
          script |-> Script(text.keys \cup {"approx_duration_minutes"},
                            text.story_title,
                            [i \in 1..Len(text.lines) |-> DefaultLine(text.lines[i])]),
          exc |-> NoException]

\* SummaryService.build_script_text_from_json: the title heading when the
\* script has a title, then one "**speaker**: text" entry per line followed
\* by its sound cue.
BuildScriptTextFromJson(script) ==
    IF ~DictTruthy(script) \/ "lines" \notin script.keys
    THEN <<>>
    ELSE (IF GetStoryTitle(script) # "" THEN <<<<"#", script.story_title>>>> ELSE <<>>)
         \o [i \in 1..Len(script.lines) |->
                <<"**", script.lines[i].text, script.lines[i].sound_effect>>]

-----------------------------------------------------------------------------
(* Files.  save_file and save_audio write <uuid4>.<ext> under               *)
(* settings.storage_path and return /storage/<subfolder>/<name>; a file is *)
(* named here by the number of its uuid.                                   *)

\* The directory settings.storage_path resolves to: "./storage", the default
\* of app/config.py resolved against a working directory other than
\* /var/www/heinercast, or the directory the handlers of generation.py and
\* episodes.py spell out.
StoragePaths == {"./storage", "/var/www/heinercast/storage"}

\* os.path.exists + os.remove on f"/var/www/heinercast/storage{url.replace('/storage', '')}":
\* the file of `url` is removed when that is the directory the files are in.
HardcodedRemove(url, fs) ==
    IF storage_path = "/var/www/heinercast/storage"
    THEN {f \in fs : f.name # url}
    ELSE fs

\* StorageService.delete_file: resolves the URL against settings.storage_path.
DeleteFile(url, fs) == {f \in fs : f.name # url}

\* A file of the storage directory: its name and, for the properties, the
\* artifact it was written as.
File(name, kind) == [name |-> name, kind |-> kind]

\* _save_locally / save_audio: a new file named by the next uuid4.
SaveFile(name, kind, fs) == fs \cup {File(name, kind)}

-----------------------------------------------------------------------------
(* State *)

NoResponse ==
    [status |-> "", script_status |-> "", voiceover_status |-> "",
     sounds_status |-> "", music_status |-> "", merge_status |-> "",
     cover_status |-> "", final_audio_url |-> 0, cover_url |-> 0]

\* No request is awaiting behind the one being served.
NoOther ==
    [op |-> "none", pc |-> "none", generate_cover |-> FALSE,
     response |-> NoResponse, trace |-> <<>>, old |-> 0]

\* No request is being served.
Idle ==
    [op |-> "none", pc |-> "none", generate_cover |-> FALSE,
     response |-> NoResponse, trace |-> <<>>, old |-> 0, other |-> NoOther]

\* The request `r`, set aside while a request that arrived during one of its
\* awaits runs.
Suspended(r) ==
    [op |-> r.op, pc |-> r.pc, generate_cover |-> r.generate_cover,
     response |-> r.response, trace |-> r.trace, old |-> r.old]

\* A request starts; the request that was being served, if any, stays at
\* its await.
Running(op, pc) ==
    [Idle EXCEPT !.op = op, !.pc = pc, !.trace = <<pc>>, !.other = Suspended(run)]

\* The request being served has ended: the one it interrupted, if any, goes on.
Resumed ==
    [op |-> run.other.op, pc |-> run.other.pc,
     generate_cover |-> run.other.generate_cover,
     response |-> run.other.response, trace |-> run.other.trace,
     old |-> run.other.old, other |-> NoOther]

\* How a request ended: the handler, "returned" or "raised", the exception,
\* the stage it was raised in, whether an external capability raised it, the
\* response object, the stages that were started, the inputs handed to the
\* mixer, the script writer's reply, the voice URL the request found and
\* request.generate_cover, the id of the Episode row a project request
\* named or created or the variant index a cover request named, and for a
\* creation the two generation flags as the request body carried them and as
\* the Episode was constructed with them.
Ended(op, outcome, exc, stage, external, response, trace, mixed) ==
    [op |-> op, outcome |-> outcome, exc |-> exc, stage |-> stage,
     external |-> external, response |-> response, trace |-> trace,
     mixed |-> mixed, reply |-> NoReply, old |-> 0, generate_cover |-> FALSE,
     target |-> 0, body |-> <<>>, created |-> <<>>]

\* A request is being served, or none was yet.
NotEnded == Ended("none", "none", NoException, "none", FALSE, NoResponse, <<>>, <<>>)

Returned(op) ==
    Ended(op, "returned", NoException, "none", FALSE, NoResponse, <<op>>, <<>>)

Rejected(op, exc) ==
    Ended(op, "raised", exc, "none", FALSE, NoResponse, <<>>, <<>>)

Failed(op, exc, external) ==
    Ended(op, "raised", exc, op, external, NoResponse, <<op>>, <<>>)

\* Episode(...) of create_episode: DRAFT, no artifact.
NewEpisode(auto, sfx, music) ==
    [status |-> "draft", error_message |-> None,
     title |-> "Episode 1", title_auto_generated |-> auto,
     script_json |-> None, script_text |-> None, summary |-> None,
     include_sound_effects |-> sfx, include_background_music |-> music,
     voice_audio_url |-> 0, sounds_json |-> None, music_url |-> 0,
     final_audio_url |-> 0, cover_url |-> 0, cover_variants_json |-> None]

\* A project without episodes; its two generation flags have the column
\* default.
NoEpisodes ==
    [episodes |-> {}, include_sound_effects |-> FALSE,
     include_background_music |-> FALSE]

\* No call of CoverService is under way.
NoCall ==
    [count |-> 0, cycles |-> <<>>, outcome |-> "none", urls |-> <<>>,
     exc |-> [type |-> "", message |-> <<>>]]

Init ==
    /\ storage_path \in StoragePaths
    /\ project = NoEpisodes
    /\ service = NoCall
    /\ \E sfx \in BOOLEAN, music \in BOOLEAN :
          episode = NewEpisode(TRUE, sfx, music)
    /\ files = {}
    /\ uuid = 0
    /\ run = Idle
    /\ last = NotEnded

\* except Exception as e: status = ERROR, error_message = str(e); raise
mut_SetErrorRollback(ep, exc) ==
    [ep EXCEPT !.status = "error", !.error_message = Some(exc.message),
               !.voice_audio_url = 0]

SetError(ep, exc) ==
    [ep EXCEPT !.status = "error", !.error_message = Some(exc.message)]

-----------------------------------------------------------------------------
(* The external capabilities: what a call can come back with. *)

HttpError == <<"API returned 500">>

ElevenLabsError(message) == Exception("ElevenLabsError", message)

\* llm_service.generate_script: _chat_completion raises, or its text is parsed.
LLMOutcomes(responses) ==
    { [reply |-> NoReply,
       parsed |-> [ok |-> FALSE, script |-> Script({}, "", <<>>),
                   exc |-> LLMProviderError(HttpError)]] }
    \cup { [reply |-> r, parsed |-> ParseScriptResponse(r)] : r \in responses }

\* The responses used where the script is only the first stage of a longer
\* run: a one-line script, a script with a sound cue, a script without lines.
CoreResponses ==
    { Response("none", FALSE, "object", ScriptKeys, "T1", <<GoodLine>>),
      Response("json", TRUE, "object", ScriptKeys \ {"approx_duration_minutes"},
               "T2", <<CueLine, BareLine>>),
      Response("json", FALSE, "object", {"story_title", "genre_tone"}, "T1", <<>>) }

-----------------------------------------------------------------------------
(* generate_script: POST /script/{episode_id} *)

\* The script fields as the success path writes them.
ApplyScript(ep, script) ==
    [ep EXCEPT !.script_json = Some(script),
               !.script_text = Some(BuildScriptTextFromJson(script)),
               !.title = IF ep.title_auto_generated /\ GetStoryTitle(script) # ""
                         THEN script.story_title ELSE @]

BeginScript ==
    /\ run.op = "none"
    /\ episode' = [episode EXCEPT !.status = "script_generating",
                                  !.error_message = None]
    /\ run' = Running("script", "script")
    /\ last' = NotEnded
    /\ UNCHANGED <<storage_path, project, service, files, uuid>>

FinishScriptWith(responses) ==
    /\ run.op = "script"
    /\ \E out \in LLMOutcomes(responses) :
          IF out.parsed.ok
          THEN /\ episode' = [ApplyScript(episode, out.parsed.script)
                                 EXCEPT !.status = "script_done"]
               /\ last' = [Returned("script") EXCEPT !.reply = out.reply]
          ELSE /\ episode' = SetError(episode, out.parsed.exc)
               /\ last' = [Failed("script", out.parsed.exc, TRUE)
                              EXCEPT !.reply = out.reply]
    /\ run' = Resumed
    /\ UNCHANGED <<storage_path, project, service, files, uuid>>

FinishScript == FinishScriptWith(CoreResponses)

-----------------------------------------------------------------------------
(* update_episode_script: PUT /episodes/{episode_id}/script (manual edit) *)

\* The scripts a client submits: any JSON object is accepted.
ManualScripts ==
    { Script({}, "", <<>>),
      Script({"story_title", "lines"}, "", <<>>) }

\* chr(10).join(f"{speaker}: {text}" for l in lines)
PlainScriptText(script) ==
    [i \in 1..Len(GetLines(script)) |-> <<":", script.lines[i].text>>]

\* With script_text given the handler reads `lines` before assigning it and
\* ends in UnboundLocalError, script_json already replaced.
UpdateEpisodeScript ==
    /\ run.op = "none"
    /\ \E script \in ManualScripts, with_text \in BOOLEAN :
          IF with_text
          THEN /\ episode' = [episode EXCEPT !.script_json = Some(script)]
               /\ last' = Failed("update_script",
                                 Exception("UnboundLocalError", <<"lines">>), FALSE)
          ELSE /\ episode' =
                    [episode EXCEPT
                        !.script_json = Some(script),
                        !.script_text = Some(PlainScriptText(script)),
                        !.title = IF episode.title_auto_generated
                                     /\ GetStoryTitle(script) # ""
                                  THEN script.story_title ELSE @,
                        !.status = IF @ \notin {"draft", "script_generating"}
                                   THEN "script_done" ELSE @]
               /\ last' = Returned("update_script")
    /\ UNCHANGED <<storage_path, project, service, files, uuid, run>>

-----------------------------------------------------------------------------
(* generate_voiceover: POST /voiceover/{episode_id} *)

\* not episode.script_json: None or an empty object
NoScript(ep) ==
    IF ep.script_json = None THEN TRUE ELSE ~DictTruthy(ep.script_json[1])

RejectVoiceover ==
    /\ run.op = "none"
    /\ NoScript(episode)
    /\ last' = Rejected("voiceover",
          BusinessLogicError("Episode must have a script before generating voiceover"))
    /\ UNCHANGED <<storage_path, project, service, episode, files, uuid, run>>

\* generate_voiceover up to the commit of VOICEOVER_GENERATING.  No
\* statement of it reads episode.status.
VoiceoverStarts ==
    /\ ~NoScript(episode)
    /\ files' = IF episode.voice_audio_url # 0
                THEN HardcodedRemove(episode.voice_audio_url, files)
                ELSE files
    /\ episode' = [episode EXCEPT !.status = "voiceover_generating",
                                  !.error_message = None]
    /\ run' = [Running("voiceover", "voiceover") EXCEPT !.old = episode.voice_audio_url]
    /\ last' = NotEnded
    /\ UNCHANGED <<storage_path, project, service, uuid>>

BeginVoiceover ==
    /\ run.op = "none"
    /\ VoiceoverStarts

\* generate_dialogue_in_parts, then the audio is saved and probed.
VoiceOutcomes == {"ok", "tts_error", "ffprobe_error"}

AudioProcessingError(message) == Exception("AudioProcessingError", message)

FinishVoiceover ==
    /\ run.op = "voiceover"
    /\ IF GetLines(episode.script_json[1]) = <<>>
       THEN /\ episode' = SetError(episode, BusinessLogicError("Script has no lines"))
            /\ last' = [Failed("voiceover", BusinessLogicError("Script has no lines"), FALSE)
                           EXCEPT !.old = run.old]
            /\ UNCHANGED <<files, uuid>>
       ELSE \E out \in VoiceOutcomes :
            CASE out = "tts_error" ->
                   /\ episode' = SetError(episode, ElevenLabsError(HttpError))
                   /\ last' = [Failed("voiceover", ElevenLabsError(HttpError), TRUE)
                                  EXCEPT !.old = run.old]
                   /\ UNCHANGED <<files, uuid>>
              [] out = "ffprobe_error" ->
                   /\ uuid < MaxBlobs
                   /\ uuid' = uuid + 1
                   /\ files' = SaveFile(uuid + 1, "voice", files)
                   /\ episode' = SetError(episode, AudioProcessingError(<<"ffprobe failed">>))
                   /\ last' = [Failed("voiceover",
                                         AudioProcessingError(<<"ffprobe failed">>), TRUE)
                                  EXCEPT !.old = run.old]
              [] out = "ok" ->
                   /\ uuid < MaxBlobs
                   /\ uuid' = uuid + 1
                   /\ files' = SaveFile(uuid + 1, "voice", files)
                   /\ episode' = [episode EXCEPT !.voice_audio_url = uuid + 1,
                                                 !.status = "voiceover_done"]
                   /\ last' = [Returned("voiceover") EXCEPT !.old = run.old]
    /\ run' = Resumed
    /\ UNCHANGED <<storage_path, project, service>>

-----------------------------------------------------------------------------
(* generate_sounds: POST /sounds/{episode_id} *)

RECURSIVE CumulativeChars(_, _)
\* Characters of lines 1..i: current_time + line_duration at line i, in
\* units of 1/14 s (line_duration = len(text) / 14.0).
CumulativeChars(lines, i) ==
    IF i = 0 THEN 0 ELSE CumulativeChars(lines, i - 1) + lines[i].text

\* The sound cues of a script: prompt and start_time (the end of the line).
SoundEffects(lines) ==
    LET cued == SelectSeq([i \in 1..Len(lines) |-> i],
                          LAMBDA i : lines[i].sound_effect # "")
    IN  [j \in 1..Len(cued) |->
            [prompt |-> lines[cued[j]].sound_effect,
             start_time |-> CumulativeChars(lines, cued[j])]]

\* generated_sounds after the first k cues were generated and saved, the
\* files named first+1 .. first+k.
GeneratedSounds(effects, first, k) ==
    [j \in 1..k |-> [prompt |-> effects[j].prompt, url |-> first + j,
                     start_time |-> effects[j].start_time]]

SaveSounds(first, k, fs) == fs \cup {File(first + j, "sound") : j \in 1..k}

\* The two checks at the head of generate_sounds: "" when both pass, else
\* the message of the BusinessLogicError.
mut_SoundsRejectionNoFlag(ep) ==
    IF ep.voice_audio_url = 0
    THEN "Episode must have voiceover before generating sounds"
    ELSE ""

SoundsRejection(ep) ==
    IF ep.voice_audio_url = 0
    THEN "Episode must have voiceover before generating sounds"
    ELSE IF ~ep.include_sound_effects
    THEN "Sound effects are disabled for this episode"
    ELSE ""

RejectSounds ==
    /\ run.op = "none"
    /\ SoundsRejection(episode) # ""
    /\ last' = Rejected("sounds", BusinessLogicError(SoundsRejection(episode)))
    /\ UNCHANGED <<storage_path, project, service, episode, files, uuid, run>>

BeginSounds ==
    /\ run.op = "none"
    /\ SoundsRejection(episode) = ""
    /\ episode' = [episode EXCEPT !.status = "sounds_generating",
                                  !.error_message = None]
    /\ run' = Running("sounds", "sounds")
    /\ last' = NotEnded
    /\ UNCHANGED <<storage_path, project, service, files, uuid>>

\* k cues are generated and saved; k = Len(effects) is success, a smaller k
\* means generate_sound_effect raised at cue k+1.
FinishSounds ==
    /\ run.op = "sounds"
    /\ IF episode.script_json = None
       THEN /\ episode' = SetError(episode, Exception("AttributeError",
                                     <<"NoneType", "object has no attribute", "get">>))
            /\ last' = Failed("sounds", Exception("AttributeError",
                                     <<"NoneType", "object has no attribute", "get">>), FALSE)
            /\ UNCHANGED <<files, uuid>>
       ELSE LET effects == SoundEffects(GetLines(episode.script_json[1])) IN
            \E k \in 0..Len(effects) :
               /\ uuid + k <= MaxBlobs
               /\ uuid' = uuid + k
               /\ files' = SaveSounds(uuid, k, files)
               /\ IF k = Len(effects)
                  THEN /\ episode' = [episode EXCEPT
                              !.sounds_json = Some(GeneratedSounds(effects, uuid, k)),
                              !.status = "sounds_done"]
                       /\ last' = Returned("sounds")
                  ELSE /\ episode' = SetError(episode, ElevenLabsError(HttpError))
                       /\ last' = Failed("sounds", ElevenLabsError(HttpError), TRUE)
    /\ run' = Resumed
    /\ UNCHANGED <<storage_path, project, service>>

-----------------------------------------------------------------------------
(* generate_music: POST /music/{episode_id} *)

\* The two checks at the head of generate_music.
MusicRejection(ep) ==
    IF ep.voice_audio_url = 0
    THEN "Episode must have voiceover before generating music"
    ELSE IF ~ep.include_background_music
    THEN "Background music is disabled for this episode"
    ELSE ""

RejectMusic ==
    /\ run.op = "none"
    /\ MusicRejection(episode) # ""
    /\ last' = Rejected("music", BusinessLogicError(MusicRejection(episode)))
    /\ UNCHANGED <<storage_path, project, service, episode, files, uuid, run>>

BeginMusic ==
    /\ run.op = "none"
    /\ MusicRejection(episode) = ""
    /\ episode' = [episode EXCEPT !.status = "music_generating",
                                  !.error_message = None]
    /\ run' = Running("music", "music")
    /\ last' = NotEnded
    /\ UNCHANGED <<storage_path, project, service, files, uuid>>

\* create_music_plan and generate_music, then the file is saved.
FinishMusic ==
    /\ run.op = "music"
    /\ \/ /\ episode' = SetError(episode, ElevenLabsError(HttpError))
          /\ last' = Failed("music", ElevenLabsError(HttpError), TRUE)
          /\ UNCHANGED <<files, uuid>>
       \/ /\ uuid < MaxBlobs
          /\ uuid' = uuid + 1
          /\ files' = SaveFile(uuid + 1, "music", files)
          /\ episode' = [episode EXCEPT !.music_url = uuid + 1,
                                        !.status = "music_done"]
          /\ last' = Returned("music")
    /\ run' = Resumed
    /\ UNCHANGED <<storage_path, project, service>>

-----------------------------------------------------------------------------
(* AudioService.full_merge and merge_audio: POST /merge/{episode_id} *)

\* sounds / music_path as merge_audio and generate_full pass them: the
\* artifact when the episode's flag is set, None otherwise.
MergeSounds(ep) == IF ep.include_sound_effects THEN ep.sounds_json ELSE None

MergeMusic(ep) == IF ep.include_background_music THEN ep.music_url ELSE 0

\* The ffmpeg inputs of full_merge: the voice, every sound when `sounds` is
\* a non-empty list, the music when music_path is set.
FullMergeInputs(voice, sounds, music) ==
    <<voice>>
    \o (IF sounds # None /\ sounds # Some(<<>>)
        THEN [j \in 1..Len(sounds[1]) |-> sounds[1][j].url] ELSE <<>>)
    \o (IF music # 0 THEN <<music>> ELSE <<>>)

RejectMerge ==
    /\ run.op = "none"
    /\ episode.voice_audio_url = 0
    /\ last' = Rejected("merge",
          BusinessLogicError("Episode must have voiceover before merging"))
    /\ UNCHANGED <<storage_path, project, service, episode, files, uuid, run>>

BeginMerge ==
    /\ run.op = "none"
    /\ episode.voice_audio_url # 0
    /\ episode' = [episode EXCEPT !.status = "merging", !.error_message = None]
    /\ run' = Running("merge", "merge")
    /\ last' = NotEnded
    /\ UNCHANGED <<storage_path, project, service, files, uuid>>

\* The arguments of full_merge are evaluated first, request.music_volume_db
\* last; then ffmpeg mixes `inputs` or fails.
FinishMerge ==
    /\ run.op = "merge"
    /\ IF ~HasAttr("MergeAudioRequest", "music_volume_db")
       THEN /\ episode' = SetError(episode,
                             AttributeError("MergeAudioRequest", "music_volume_db"))
            /\ last' = Failed("merge",
                             AttributeError("MergeAudioRequest", "music_volume_db"), FALSE)
            /\ UNCHANGED <<files, uuid>>
       ELSE LET inputs == FullMergeInputs(episode.voice_audio_url,
                                          MergeSounds(episode), MergeMusic(episode))
            IN \/ /\ episode' = SetError(episode, AudioProcessingError(<<"Full merge failed">>))
                  /\ last' = Failed("merge", AudioProcessingError(<<"Full merge failed">>), TRUE)
                  /\ UNCHANGED <<files, uuid>>
               \/ /\ uuid < MaxBlobs
                  /\ uuid' = uuid + 1
                  /\ files' = SaveFile(uuid + 1, "final", files)
                  /\ episode' = [episode EXCEPT !.final_audio_url = uuid + 1,
                                                !.status = "audio_done"]
                  /\ last' = [Returned("merge") EXCEPT !.mixed = inputs]
    /\ run' = Resumed
    /\ UNCHANGED <<storage_path, project, service>>

-----------------------------------------------------------------------------
(* generate_cover: POST /cover/{episode_id} *)

\* The files of the cover and of every variant, removed through the
\* spelled-out storage directory.
RemoveCovers(ep, fs) ==
    LET urls == (IF ep.cover_url # 0 THEN {ep.cover_url} ELSE {})
                \cup (IF ep.cover_variants_json # None
                      THEN {ep.cover_variants_json[1][j].url :
                               j \in 1..Len(ep.cover_variants_json[1])}
                      ELSE {})
    IN  IF storage_path = "/var/www/heinercast/storage"
        THEN {f \in fs : f.name \notin urls}
        ELSE fs

\* cover_variants_json and cover_url are reset only when variants are recorded.
mut_BeginCoverKeepUrl ==
    /\ run.op = "none"
    /\ files' = RemoveCovers(episode, files)
    /\ episode' =
          [episode EXCEPT
              !.cover_variants_json = None,
              !.status = "cover_generating",
              !.error_message = None]
    /\ run' = Running("cover", "cover")
    /\ last' = NotEnded
    /\ UNCHANGED <<storage_path, project, service, uuid>>

BeginCover ==
    /\ run.op = "none"
    /\ files' = RemoveCovers(episode, files)
    /\ episode' =
          [episode EXCEPT
              !.cover_variants_json = None,
              !.cover_url = IF episode.cover_variants_json \notin {None, Some(<<>>)}
                            THEN 0 ELSE @,
              !.status = "cover_generating",
              !.error_message = None]
    /\ run' = Running("cover", "cover")
    /\ last' = NotEnded
    /\ UNCHANGED <<storage_path, project, service, uuid>>

KieAIError(message) == Exception("KieAIError", message)

\* [{"url": url, "selected": i == 0} for i, url in enumerate(saved_urls)],
\* the saved files named first+1 .. first+k.
Variants(first, k) == [j \in 1..k |-> [url |-> first + j, selected |-> (j = 1)]]

SaveCovers(first, k, fs) == fs \cup {File(first + j, "cover") : j \in 1..k}

\* request.reference_images is read before the covers are generated; then
\* k of the requested variants succeed, k = 0 being "All cover generations
\* failed".
FinishCover ==
    /\ run.op = "cover"
    /\ IF ~HasAttr("GenerateCoverRequest", "reference_images")
       THEN /\ episode' = SetError(episode,
                             AttributeError("GenerateCoverRequest", "reference_images"))
            /\ last' = Failed("cover",
                             AttributeError("GenerateCoverRequest", "reference_images"), FALSE)
            /\ UNCHANGED <<files, uuid>>
       ELSE \E count \in 1..4 : \E k \in 0..count :
               /\ uuid + k <= MaxBlobs
               /\ uuid' = uuid + k
               /\ files' = SaveCovers(uuid, k, files)
               /\ IF k = 0
                  THEN /\ episode' = SetError(episode,
                                        KieAIError(<<"All cover generations failed">>))
                       /\ last' = Failed("cover",
                                        KieAIError(<<"All cover generations failed">>), TRUE)
                  ELSE /\ episode' = [episode EXCEPT
                                         !.cover_url = uuid + 1,
                                         !.cover_variants_json = Some(Variants(uuid, k)),
                                         !.status = "done"]
                       /\ last' = Returned("cover")
    /\ run' = Resumed
    /\ UNCHANGED <<storage_path, project, service>>

-----------------------------------------------------------------------------
(* select_cover: POST /cover/{episode_id}/select, and delete_cover_variant: *)
(* DELETE /episodes/{episode_id}/cover/{variant_index}.  Indexes count from *)
(* 0 as in the requests; the variant at index i is element i + 1.          *)

\* episode.cover_variants_json as a list, the empty one when it is null.
VariantList(ep) ==
    IF ep.cover_variants_json = None THEN <<>> ELSE ep.cover_variants_json[1]

\* SelectCoverRequest.variant_index: ge = 0, le = 3.
VariantIndexes == 0..3

\* The path parameter variant_index of delete_cover_variant: any int; the
\* model takes those around the lists it has.
PathIndexes == (0 - 1)..4

\* variant["selected"] = (i == request.variant_index) for every variant;
\* cover_url = variants[request.variant_index]["url"]
mut_SelectVariantKeepOthers(ep, i) ==
    LET variants == VariantList(ep) IN
    [ep EXCEPT
        !.cover_variants_json =
            Some([j \in 1..Len(variants) |->
                    [variants[j] EXCEPT !.selected = @ \/ (j - 1 = i)]]),
        !.cover_url = variants[i + 1].url]

SelectVariant(ep, i) ==
    LET variants == VariantList(ep) IN
    [ep EXCEPT
        !.cover_variants_json =
            Some([j \in 1..Len(variants) |->
                    [variants[j] EXCEPT !.selected = (j - 1 = i)]]),
        !.cover_url = variants[i + 1].url]

SelectCover ==
    /\ run.op = "none"
    /\ \E i \in VariantIndexes :
          IF VariantList(episode) = <<>>
          THEN /\ last' = [Rejected("select_cover",
                              BusinessLogicError("No cover variants available"))
                              EXCEPT !.target = i]
               /\ UNCHANGED episode
          ELSE IF i >= Len(VariantList(episode))
          THEN /\ last' = [Rejected("select_cover",
                              BusinessLogicError("Invalid variant index"))
                              EXCEPT !.target = i]
               /\ UNCHANGED episode
          ELSE /\ episode' = SelectVariant(episode, i)
               /\ last' = [Returned("select_cover") EXCEPT !.target = i]
    /\ UNCHANGED <<storage_path, project, service, files, uuid, run>>

\* variants.pop(variant_index)
Pop(variants, i) ==
    [j \in 1..(Len(variants) - 1) |->
        IF j <= i THEN variants[j] ELSE variants[j + 1]]

\* was_selected and variants: the first remaining variant is selected and
\* becomes the cover; no variant left: cover_url and the list are None.
mut_RemoveVariantNoPromotion(ep, i) ==
    LET variants == Pop(VariantList(ep), i) IN
    IF variants = <<>>
    THEN [ep EXCEPT !.cover_url = 0, !.cover_variants_json = None]
    ELSE [ep EXCEPT !.cover_variants_json = Some(variants)]

RemoveVariant(ep, i) ==
    LET was_selected == VariantList(ep)[i + 1].selected
        variants     == Pop(VariantList(ep), i)
    IN  IF was_selected /\ variants # <<>>
        THEN [ep EXCEPT
                 !.cover_variants_json =
                     Some([variants EXCEPT ![1] = [@ EXCEPT !.selected = TRUE]]),
                 !.cover_url = variants[1].url]
        ELSE IF variants = <<>>
        THEN [ep EXCEPT !.cover_url = 0, !.cover_variants_json = None]
        ELSE [ep EXCEPT !.cover_variants_json = Some(variants)]

\* The file of the variant is removed through the spelled-out storage directory.
DeleteCoverVariant ==
    /\ run.op = "none"
    /\ \E i \in PathIndexes :
          IF VariantList(episode) = <<>>
          THEN /\ last' = [Rejected("delete_cover_variant",
                              BusinessLogicError("No cover variants available"))
                              EXCEPT !.target = i]
               /\ UNCHANGED <<episode, files>>
          ELSE IF i >= Len(VariantList(episode)) \/ i < 0
          THEN /\ last' = [Rejected("delete_cover_variant",
                              BusinessLogicError("Invalid variant index"))
                              EXCEPT !.target = i]
               /\ UNCHANGED <<episode, files>>
          ELSE /\ files' = HardcodedRemove(VariantList(episode)[i + 1].url, files)
               /\ episode' = RemoveVariant(episode, i)
               /\ last' = [Returned("delete_cover_variant") EXCEPT
                              !.target = i, !.old = episode.cover_url]
    /\ UNCHANGED <<storage_path, project, service, uuid, run>>

\* An episode stored in the database with the k covers that generate_cover
\* records when k generations succeed: the files saved, the variants with
\* the first one selected, cover_url the first URL, status DONE.
StoredCovers(k) ==
    IF k = 0
    THEN NewEpisode(TRUE, FALSE, FALSE)
    ELSE [NewEpisode(TRUE, FALSE, FALSE) EXCEPT
             !.cover_url = 1,
             !.cover_variants_json = Some(Variants(0, k)),
             !.status = "done"]

InitCovers ==
    /\ storage_path \in StoragePaths
    /\ project = NoEpisodes
    /\ service = NoCall
    /\ \E k \in 0..MaxBlobs :
          /\ episode = StoredCovers(k)
          /\ files = SaveCovers(0, k, {})
          /\ uuid = k
    /\ run = Idle
    /\ last = NotEnded

NextCovers ==
    \/ BeginCover
    \/ FinishCover
    \/ SelectCover
    \/ DeleteCoverVariant

SpecCovers == InitCovers /\ [][NextCovers]_vars

-----------------------------------------------------------------------------
(* delete_episode_audio: DELETE /episodes/{episode_id}/audio *)

DeleteEpisodeAudio ==
    /\ run.op = "none"
    /\ files' = HardcodedRemove(episode.final_audio_url,
                                HardcodedRemove(episode.voice_audio_url, files))
    /\ episode' = [episode EXCEPT !.voice_audio_url = 0,
                                  !.final_audio_url = 0,
                                  !.status = "script_done"]
    /\ last' = Returned("delete_audio")
    /\ UNCHANGED <<storage_path, project, service, uuid, run>>

-----------------------------------------------------------------------------
(* generate_full: POST /full/{episode_id}, the whole pipeline in one       *)
(* request.  run.pc is the stage whose external calls are awaited.         *)

\* GenerateFullResponse(...) as constructed before the first stage.
InitialResponse(ep, generate_cover) ==
    [NoResponse EXCEPT
        !.status = "processing",
        !.script_status = "pending",
        !.voiceover_status = "pending",
        !.sounds_status = IF ep.include_sound_effects THEN "pending" ELSE "skipped",
        !.music_status = IF ep.include_background_music THEN "pending" ELSE "skipped",
        !.merge_status = "pending",
        !.cover_status = IF generate_cover THEN "pending" ELSE "skipped"]

\* The in-progress status a stage commits when it starts.
mut_StageStatusMergeAsMusic(stage) ==
    CASE stage = "script"    -> "script_generating"
      [] stage = "voiceover" -> "voiceover_generating"
      [] stage = "sounds"    -> "sounds_generating"
      [] stage = "music"     -> "music_generating"
      [] stage = "merge"     -> "music_generating"
      [] stage = "cover"     -> "cover_generating"

StageStatus(stage) ==
    CASE stage = "script"    -> "script_generating"
      [] stage = "voiceover" -> "voiceover_generating"
      [] stage = "sounds"    -> "sounds_generating"
      [] stage = "music"     -> "music_generating"
      [] stage = "merge"     -> "merging"
      [] stage = "cover"     -> "cover_generating"

\* The stage entered when `stage` has recorded its artifact: the next one
\* whose `if episode.include_...` holds.
mut_NextStageNoSounds(stage, ep) ==
    CASE stage = "script"    -> "voiceover"
      [] stage = "voiceover" -> IF ep.include_background_music THEN "music" ELSE "merge"
      [] stage = "sounds"    -> IF ep.include_background_music THEN "music" ELSE "merge"
      [] stage = "music"     -> "merge"

NextStage(stage, ep) ==
    CASE stage = "script"    -> "voiceover"
      [] stage = "voiceover" -> IF ep.include_sound_effects THEN "sounds"
                                ELSE IF ep.include_background_music THEN "music"
                                ELSE "merge"
      [] stage = "sounds"    -> IF ep.include_background_music THEN "music" ELSE "merge"
      [] stage = "music"     -> "merge"

\* response.<stage>_status = value
SetStageStatus(response, stage, value) ==
    CASE stage = "script"    -> [response EXCEPT !.script_status = value]
      [] stage = "voiceover" -> [response EXCEPT !.voiceover_status = value]
      [] stage = "sounds"    -> [response EXCEPT !.sounds_status = value]
      [] stage = "music"     -> [response EXCEPT !.music_status = value]
      [] stage = "merge"     -> [response EXCEPT !.merge_status = value]
      [] stage = "cover"     -> [response EXCEPT !.cover_status = value]

\* The stage of run.pc has recorded its artifact in `ep`: it is marked done,
\* the next stage is marked in progress and its status committed.
Advance(ep) ==
    LET next == NextStage(run.pc, ep) IN
    /\ episode' = [ep EXCEPT !.status = StageStatus(next)]
    /\ run' = [run EXCEPT
                  !.pc = next,
                  !.trace = Append(@, next),
                  !.response = SetStageStatus(SetStageStatus(@, run.pc, "done"),
                                              next, "in_progress")]
    /\ UNCHANGED last

\* except Exception as e: the episode is marked, response.status = "error",
\* the exception is raised again.
Abort(exc, external) ==
    /\ episode' = SetError(episode, exc)
    /\ last' = [Ended("full", "raised", exc, run.pc, external,
                      [run.response EXCEPT !.status = "error"], run.trace, <<>>)
                   EXCEPT !.generate_cover = run.generate_cover]
    /\ run' = Resumed

\* generate_full up to the commit of SCRIPT_GENERATING.  No statement of it
\* reads episode.status.
FullStarts ==
    /\ \E generate_cover \in BOOLEAN :
          run' = [Running("full", "script") EXCEPT
                     !.generate_cover = generate_cover,
                     !.response = SetStageStatus(
                         InitialResponse(episode, generate_cover),
                         "script", "in_progress")]
    /\ episode' = [episode EXCEPT !.status = "script_generating"]
    /\ last' = NotEnded
    /\ UNCHANGED <<storage_path, project, service, files, uuid>>

FullStart ==
    /\ run.op = "none"
    /\ FullStarts

FullScript ==
    /\ run.op = "full" /\ run.pc = "script"
    /\ \E out \in LLMOutcomes(CoreResponses) :
          IF out.parsed.ok
          THEN Advance(ApplyScript(episode, out.parsed.script))
          ELSE Abort(out.parsed.exc, TRUE)
    /\ UNCHANGED <<storage_path, project, service, files, uuid>>

FullVoiceover ==
    /\ run.op = "full" /\ run.pc = "voiceover"
    /\ \E out \in VoiceOutcomes :
          CASE out = "tts_error" ->
                 /\ Abort(ElevenLabsError(HttpError), TRUE)
                 /\ UNCHANGED <<files, uuid>>
            [] out = "ffprobe_error" ->
                 /\ uuid < MaxBlobs
                 /\ uuid' = uuid + 1
                 /\ files' = SaveFile(uuid + 1, "voice", files)
                 /\ Abort(AudioProcessingError(<<"ffprobe failed">>), TRUE)
            [] out = "ok" ->
                 /\ uuid < MaxBlobs
                 /\ uuid' = uuid + 1
                 /\ files' = SaveFile(uuid + 1, "voice", files)
                 /\ Advance([episode EXCEPT !.voice_audio_url = uuid + 1])
    /\ UNCHANGED <<storage_path, project, service>>

FullSounds ==
    /\ run.op = "full" /\ run.pc = "sounds"
    /\ LET effects == SoundEffects(GetLines(episode.script_json[1])) IN
       \E k \in 0..Len(effects) :
          /\ uuid + k <= MaxBlobs
          /\ uuid' = uuid + k
          /\ files' = SaveSounds(uuid, k, files)
          /\ IF k = Len(effects)
             THEN Advance([episode EXCEPT
                              !.sounds_json = Some(GeneratedSounds(effects, uuid, k))])
             ELSE Abort(ElevenLabsError(HttpError), TRUE)
    /\ UNCHANGED <<storage_path, project, service>>

FullMusic ==
    /\ run.op = "full" /\ run.pc = "music"
    /\ \/ /\ Abort(ElevenLabsError(HttpError), TRUE)
          /\ UNCHANGED <<files, uuid>>
       \/ /\ uuid < MaxBlobs
          /\ uuid' = uuid + 1
          /\ files' = SaveFile(uuid + 1, "music", files)
          /\ Advance([episode EXCEPT !.music_url = uuid + 1])
    /\ UNCHANGED <<storage_path, project, service>>

\* generate_multiple_covers(prompt=, count=, reference_image_url=): the
\* keyword parameters generate_multiple_covers declares.
CoverParameters ==
    {"prompt", "prompts", "count", "reference_image_urls", "aspect_ratio", "resolution"}

\* From the merge stage to the end of generate_full.  The arguments of
\* full_merge are evaluated first, request.music_volume_db last.  After a
\* successful mix the cover stage calls generate_multiple_covers with the
\* keyword reference_image_url, and the summary is generated before DONE.
FullMerge ==
    /\ run.op = "full" /\ run.pc = "merge"
    /\ IF ~HasAttr("GenerateFullRequest", "music_volume_db")
       THEN /\ Abort(AttributeError("GenerateFullRequest", "music_volume_db"), FALSE)
            /\ UNCHANGED <<files, uuid>>
       ELSE LET inputs == FullMergeInputs(episode.voice_audio_url,
                                          MergeSounds(episode), MergeMusic(episode))
                merged == [episode EXCEPT !.final_audio_url = uuid + 1]
                response == [SetStageStatus(run.response, "merge", "done")
                                EXCEPT !.final_audio_url = uuid + 1]
            IN \/ /\ Abort(AudioProcessingError(<<"Full merge failed">>), TRUE)
                  /\ UNCHANGED <<files, uuid>>
               \/ /\ uuid < MaxBlobs
                  /\ uuid' = uuid + 1
                  /\ files' = SaveFile(uuid + 1, "final", files)
                  /\ run' = Resumed
                  /\ IF run.generate_cover
                     THEN /\ "reference_image_url" \notin CoverParameters
                          /\ episode' = SetError(merged,
                                Exception("TypeError", <<"unexpected keyword argument",
                                                         "reference_image_url">>))
                          /\ last' = [Ended("full", "raised",
                                Exception("TypeError", <<"unexpected keyword argument",
                                                         "reference_image_url">>),
                                "cover", FALSE,
                                [SetStageStatus(response, "cover", "in_progress")
                                    EXCEPT !.status = "error"],
                                run.trace \o <<"cover">>, inputs)
                                         EXCEPT !.generate_cover = TRUE]
                     ELSE \/ /\ episode' = SetError(merged, LLMProviderError(HttpError))
                             /\ last' = Ended("full", "raised", LLMProviderError(HttpError),
                                   "summary", TRUE, [response EXCEPT !.status = "error"],
                                   run.trace \o <<"summary">>, inputs)
                          \/ /\ episode' = [merged EXCEPT !.summary = Some("summary"),
                                                          !.status = "done"]
                             /\ last' = Ended("full", "returned", NoException, "none",
                                   FALSE, [response EXCEPT !.status = "done"],
                                   run.trace \o <<"summary">>, inputs)
    /\ UNCHANGED <<storage_path, project, service>>

Next ==
    \/ BeginScript
    \/ FinishScript
    \/ UpdateEpisodeScript
    \/ RejectVoiceover
    \/ BeginVoiceover
    \/ FinishVoiceover
    \/ RejectSounds
    \/ BeginSounds
    \/ FinishSounds
    \/ RejectMusic
    \/ BeginMusic
    \/ FinishMusic
    \/ RejectMerge
    \/ BeginMerge
    \/ FinishMerge
    \/ BeginCover
    \/ FinishCover
    \/ DeleteEpisodeAudio
    \/ FullStart
    \/ FullScript
    \/ FullVoiceover
    \/ FullSounds
    \/ FullMusic
    \/ FullMerge

Spec == Init /\ [][Next]_vars

-----------------------------------------------------------------------------
(* generate_script alone, with every response of Responses. *)

InitScript ==
    /\ storage_path \in StoragePaths
    /\ project = NoEpisodes
    /\ service = NoCall
    /\ \E auto \in BOOLEAN, sfx \in BOOLEAN, music \in BOOLEAN :
          episode = NewEpisode(auto, sfx, music)
    /\ files = {}
    /\ uuid = 0
    /\ run = Idle
    /\ last = NotEnded

FinishScriptAny == FinishScriptWith(Responses)

NextScript ==
    \/ BeginScript
    \/ FinishScriptAny

SpecScript == InitScript /\ [][NextScript]_vars

-----------------------------------------------------------------------------
(* Two invocations on one episode.  A handler gives up control at each of  *)
(* its awaits, so a second request for the same episode can be served      *)
(* while the first awaits an external call.  Here the second request runs  *)
(* to its end before the first goes on, one of the interleavings the event *)
(* loop allows.                                                            *)

ConcurrentVoiceover ==
    /\ run.op # "none"
    /\ run.other.op = "none"
    /\ VoiceoverStarts

ConcurrentFull ==
    /\ run.op # "none"
    /\ run.other.op = "none"
    /\ FullStarts

NextConcurrent ==
    \/ BeginScript
    \/ FinishScript
    \/ RejectVoiceover
    \/ BeginVoiceover
    \/ FinishVoiceover
    \/ FullStart
    \/ FullScript
    \/ FullVoiceover
    \/ FullSounds
    \/ FullMusic
    \/ FullMerge
    \/ ConcurrentVoiceover
    \/ ConcurrentFull

SpecConcurrent == Init /\ [][NextConcurrent]_vars

-----------------------------------------------------------------------------
(* The episodes of a project: create_episode, create_continuation,         *)
(* delete_episode.                                                         *)

\* EpisodeDeletionError(BusinessLogicError): "Cannot delete episode: {reason}"
EpisodeDeletionError(reason) ==
    Exception("EpisodeDeletionError", <<"Cannot delete episode:", reason>>)

\* Episode(...) as create_episode and create_continuation add it.
Row(id, number) ==
    [id |-> id, episode_number |-> number, status |-> "draft", voice_audio_url |-> 0,
     final_audio_url |-> 0, music_url |-> 0, cover_url |-> 0,
     cover_variants_json |-> None]

RECURSIVE SetMax(_)
SetMax(S) ==
    IF S = {} THEN 0
    ELSE LET x == CHOOSE y \in S : TRUE
             m == SetMax(S \ {x})
         IN  IF x > m THEN x ELSE m

\* select(func.max(Episode.episode_number)) ... .scalar() or 0
MaxEpisodeNumber(rows) == SetMax({r.episode_number : r \in rows})

\* The id of a new row (a uuid4): one that no row of the project has.
NewId(rows) ==
    CHOOSE i \in 1..(Cardinality(rows) + 1) :
        /\ \A r \in rows : r.id # i
        /\ \A j \in 1..(i - 1) : \E r \in rows : r.id = j

\* include_sound_effects and include_background_music of a creation request
\* as the client sent them: absent, true or false.
SentFlags == { None, Some(TRUE), Some(FALSE) }

\* EpisodeCreate declares each flag as bool = False: an absent flag is False.
EpisodeCreate(sent) == IF sent = None THEN FALSE ELSE sent[1]

\* create_episode: "if not episode_data.flag and project.flag: flag = True".
InheritIfFalse(flag, default) == IF ~flag /\ default THEN TRUE ELSE flag

\* create_continuation: "cont_data.flag if cont_data.flag is not None else
\* project.flag" (EpisodeContinuationCreate declares Optional[bool] = None).
InheritIfNone(flag, default) == IF flag # None THEN flag[1] ELSE default

\* db.add(Episode(episode_number = next_number, include_sound_effects = ...,
\* include_background_music = ...)).  The rows keep what the project requests
\* read; the flags of the new Episode are kept with the request's end.
mut_AddEpisodeNoIncrement(op, body, include_sound_effects, include_background_music) ==
    LET next_number == MaxEpisodeNumber(project.episodes)
        id          == NewId(project.episodes)
    IN
    /\ Cardinality(project.episodes) < MaxEpisodes
    /\ project' = [project EXCEPT !.episodes = @ \cup {Row(id, next_number)}]
    /\ last' = [Returned(op) EXCEPT !.target = id, !.body = body,
                   !.created = <<include_sound_effects, include_background_music>>]

AddEpisode(op, body, include_sound_effects, include_background_music) ==
    LET next_number == MaxEpisodeNumber(project.episodes) + 1
        id          == NewId(project.episodes)
    IN
    /\ Cardinality(project.episodes) < MaxEpisodes
    /\ project' = [project EXCEPT !.episodes = @ \cup {Row(id, next_number)}]
    /\ last' = [Returned(op) EXCEPT !.target = id, !.body = body,
                   !.created = <<include_sound_effects, include_background_music>>]

CreateEpisode ==
    /\ run.op = "none"
    /\ \E sfx \in SentFlags, music \in SentFlags :
          LET episode_data == [include_sound_effects |-> EpisodeCreate(sfx),
                               include_background_music |-> EpisodeCreate(music)]
          IN AddEpisode("create_episode", <<sfx, music>>,
                        InheritIfFalse(episode_data.include_sound_effects,
                                       project.include_sound_effects),
                        InheritIfFalse(episode_data.include_background_music,
                                       project.include_background_music))
    /\ UNCHANGED <<storage_path, service, episode, files, uuid, run>>

\* The parent is the episode the request names.
CreateContinuation ==
    /\ run.op = "none"
    /\ \E parent \in project.episodes :
          IF parent.status # "done"
          THEN /\ last' = [Rejected("create_continuation", BusinessLogicError(
                              "Parent episode must be completed before creating a continuation"))
                              EXCEPT !.target = parent.id]
               /\ UNCHANGED project
          ELSE \E sfx \in SentFlags, music \in SentFlags :
                  AddEpisode("create_continuation", <<sfx, music>>,
                             InheritIfNone(sfx, project.include_sound_effects),
                             InheritIfNone(music, project.include_background_music))
    /\ UNCHANGED <<storage_path, service, episode, files, uuid, run>>

\* files_to_delete of delete_episode: the voice, final and music URLs, the
\* cover URL and the URL of every cover variant, each when it is set.
FilesToDelete(ep) ==
    ({ ep.voice_audio_url, ep.final_audio_url, ep.music_url, ep.cover_url }
        \cup { VariantList(ep)[i].url : i \in 1..Len(VariantList(ep)) }) \ {0}

\* "for file_url in files_to_delete": each is removed through the
\* spelled-out storage directory.
RemoveFiles(urls, fs) == { f \in fs : \A url \in urls : f \in HardcodedRemove(url, fs) }

\* The files delete_episode collects are removed through the spelled-out
\* storage directory, then the row is deleted.
mut_DeleteEpisodeAny ==
    /\ run.op = "none"
    /\ \E row \in project.episodes :
          /\ files' = RemoveFiles(FilesToDelete(row), files)
          /\ project' = [project EXCEPT !.episodes = @ \ {row}]
          /\ last' = [Returned("delete_episode") EXCEPT !.target = row.id]
    /\ UNCHANGED <<storage_path, service, episode, uuid, run>>

DeleteEpisode ==
    /\ run.op = "none"
    /\ \E row \in project.episodes :
          IF row.episode_number # MaxEpisodeNumber(project.episodes)
          THEN /\ last' = [Rejected("delete_episode",
                              EpisodeDeletionError("Only the last episode can be deleted"))
                              EXCEPT !.target = row.id]
               /\ UNCHANGED <<project, files>>
          ELSE /\ files' = RemoveFiles(FilesToDelete(row), files)
               /\ project' = [project EXCEPT !.episodes = @ \ {row}]
               /\ last' = [Returned("delete_episode") EXCEPT !.target = row.id]
    /\ UNCHANGED <<storage_path, service, episode, uuid, run>>

\* The statuses a generation request leaves an episode in when it has ended.
EndStatuses ==
    { "script_done", "voiceover_done", "sounds_done", "music_done", "error" }

\* generate_voiceover on an episode of the project has ended: with the voice
\* file saved and VOICEOVER_DONE, or in ERROR.
VoiceoverGenerated ==
    /\ run.op = "none"
    /\ \E row \in project.episodes :
          /\ \/ /\ uuid < MaxBlobs
                /\ uuid' = uuid + 1
                /\ files' = SaveFile(uuid + 1, "voice", files)
                /\ project' = [project EXCEPT !.episodes = (@ \ {row}) \cup
                      {[row EXCEPT !.status = "voiceover_done",
                                   !.voice_audio_url = uuid + 1]}]
             \/ /\ project' = [project EXCEPT !.episodes = (@ \ {row}) \cup
                      {[row EXCEPT !.status = "error"]}]
                /\ UNCHANGED <<files, uuid>>
          /\ last' = [Returned("voiceover") EXCEPT !.target = row.id]
    /\ UNCHANGED <<storage_path, service, episode, run>>

NextProject ==
    \/ CreateEpisode
    \/ CreateContinuation
    \/ DeleteEpisode
    \/ VoiceoverGenerated

\* The project requests never read the episode of the generation endpoints.
InitProject ==
    /\ storage_path \in StoragePaths
    /\ project = NoEpisodes
    /\ service = NoCall
    /\ episode = NewEpisode(TRUE, FALSE, FALSE)
    /\ files = {}
    /\ uuid = 0
    /\ run = Idle
    /\ last = NotEnded

SpecProject == InitProject /\ [][NextProject]_vars

\* The project requests on a project whose episodes are already stored in the
\* database, numbered 1..n, each with a status of the EpisodeStatus column
\* that a request leaves behind, DONE (generate_full, generate_cover) included.
StoredStatuses == EndStatuses \cup { "draft", "done" }

InitStored ==
    /\ storage_path \in StoragePaths
    /\ \E n \in 1..MaxEpisodes : \E st \in [1..n -> StoredStatuses] :
          project = [NoEpisodes EXCEPT
                        !.episodes = { [Row(i, i) EXCEPT !.status = st[i]] : i \in 1..n }]
    /\ service = NoCall
    /\ episode = NewEpisode(TRUE, FALSE, FALSE)
    /\ files = {}
    /\ uuid = 0
    /\ run = Idle
    /\ last = NotEnded

SpecStored == InitStored /\ [][NextProject]_vars

\* The creation requests on a project with either default of the two
\* generation flags, empty or with stored episodes some of which are DONE.
InitCreate ==
    /\ storage_path \in StoragePaths
    /\ \E n \in 0..(MaxEpisodes - 1) : \E st \in [1..n -> { "draft", "done" }] :
       \E sfx \in BOOLEAN, music \in BOOLEAN :
          project = [episodes |-> { [Row(i, i) EXCEPT !.status = st[i]] : i \in 1..n },
                     include_sound_effects |-> sfx,
                     include_background_music |-> music]
    /\ service = NoCall
    /\ episode = NewEpisode(TRUE, FALSE, FALSE)
    /\ files = {}
    /\ uuid = 0
    /\ run = Idle
    /\ last = NotEnded

SpecCreate == InitCreate /\ [][NextProject]_vars

\* delete_episode on the episode of the generation requests, the only one of
\* its project and so the last one.  `episode` keeps the fields of the
\* deleted object.
DeleteGeneratedEpisode ==
    /\ run.op = "none"
    /\ \E row \in project.episodes :
          /\ files' = RemoveFiles(FilesToDelete(episode), files)
          /\ project' = [project EXCEPT !.episodes = @ \ {row}]
          /\ last' = [Returned("delete_episode") EXCEPT !.target = row.id]
    /\ UNCHANGED <<storage_path, service, episode, uuid, run>>

\* The generation requests on the one episode of a project, until the
\* episode is deleted: verify_episode_ownership finds no episode afterwards.
InitDelete ==
    /\ storage_path \in StoragePaths
    /\ project = [NoEpisodes EXCEPT !.episodes = { Row(1, 1) }]
    /\ service = NoCall
    /\ \E sfx \in BOOLEAN, music \in BOOLEAN :
          episode = NewEpisode(TRUE, sfx, music)
    /\ files = {}
    /\ uuid = 0
    /\ run = Idle
    /\ last = NotEnded

NextDelete ==
    \/ project.episodes # {} /\ Next
    \/ DeleteGeneratedEpisode

SpecDelete == InitDelete /\ [][NextDelete]_vars

\* Two creation requests for one project, each in its own coroutine and
\* database session.  A handler awaits the SELECT of the maximum and later
\* awaits the flush of its INSERT, so the steps of two requests interleave;
\* the episodes table has no constraint on (project_id, episode_number).
Requests == { 1, 2 }

\* No request has read the maximum, or a request holds its next_number.
NoRead == [op |-> "none", next_number |-> 0]

\* "next_number = (max_result.scalar() or 0) + 1" of create_episode, or of
\* create_continuation after its parent was found DONE.
ReadMaximum(c) ==
    /\ service.reads[c] = NoRead
    /\ Cardinality(project.episodes)
          + Cardinality({ d \in Requests : service.reads[d] # NoRead }) < MaxEpisodes
    /\ \E op \in { "create_episode", "create_continuation" } :
          /\ op = "create_continuation" => \E parent \in project.episodes : parent.status = "done"
          /\ service' = [service EXCEPT !.reads[c] =
                            [op |-> op,
                             next_number |-> MaxEpisodeNumber(project.episodes) + 1]]
    /\ UNCHANGED <<storage_path, project, episode, files, uuid, run, last>>

\* db.add(Episode(episode_number = next_number, ...)); await db.flush(): the
\* row is inserted with the number computed from the earlier read.  The
\* request body carries neither generation flag.
InsertEpisode(c) ==
    LET read == service.reads[c]
        id   == NewId(project.episodes)
        sfx   == IF read.op = "create_episode"
                 THEN InheritIfFalse(EpisodeCreate(None), project.include_sound_effects)
                 ELSE InheritIfNone(None, project.include_sound_effects)
        music == IF read.op = "create_episode"
                 THEN InheritIfFalse(EpisodeCreate(None), project.include_background_music)
                 ELSE InheritIfNone(None, project.include_background_music)
    IN
    /\ read # NoRead
    /\ project' = [project EXCEPT !.episodes = @ \cup {Row(id, read.next_number)}]
    /\ service' = [service EXCEPT !.reads[c] = NoRead]
    /\ last' = [Returned(read.op) EXCEPT !.target = id, !.body = <<None, None>>,
                                        !.created = <<sfx, music>>]
    /\ UNCHANGED <<storage_path, episode, files, uuid, run>>

InitRace ==
    /\ storage_path \in StoragePaths
    /\ \E n \in 0..(MaxEpisodes - 1) : \E st \in [1..n -> { "draft", "done" }] :
          project = [NoEpisodes EXCEPT
                        !.episodes = { [Row(i, i) EXCEPT !.status = st[i]] : i \in 1..n }]
    /\ service = [pc |-> "create", outcome |-> "none", reads |-> [c \in Requests |-> NoRead]]
    /\ episode = NewEpisode(TRUE, FALSE, FALSE)
    /\ files = {}
    /\ uuid = 0
    /\ run = Idle
    /\ last = NotEnded

NextRace ==
    \/ \E c \in Requests : ReadMaximum(c)
    \/ \E c \in Requests : InsertEpisode(c)

SpecRace == InitRace /\ [][NextRace]_vars

-----------------------------------------------------------------------------
(* delete_merged_audio: DELETE /generation/music/{episode_id}/merged, and   *)
(* delete_audio: DELETE /files/audio/{episode_id}, on an episode stored as  *)
(* generate_full leaves it when every stage succeeded.                      *)

\* The final file is removed through the spelled-out storage directory and
\* final_audio_url is set to None; status is not written.
DeleteMergedAudio ==
    /\ run.op = "none"
    /\ IF episode.final_audio_url # 0
       THEN /\ files' = HardcodedRemove(episode.final_audio_url, files)
            /\ episode' = [episode EXCEPT !.final_audio_url = 0]
       ELSE UNCHANGED <<files, episode>>
    /\ last' = Returned("delete_merged_audio")
    /\ UNCHANGED <<storage_path, project, service, uuid, run>>

\* The URLs of the recorded sound effects; "if episode.sounds_json" is false
\* for None and for the empty list.
SoundUrls(ep) ==
    IF ep.sounds_json = None THEN {}
    ELSE { ep.sounds_json[1][j].url : j \in 1..Len(ep.sounds_json[1]) }

\* Voice, sounds, music and final audio are deleted with
\* StorageService.delete_file and their fields set to None; status is not
\* written.
DeleteAudio ==
    /\ run.op = "none"
    /\ files' = { f \in files :
                    \A url \in ({ episode.voice_audio_url, episode.music_url,
                                   episode.final_audio_url } \ {0})
                                 \cup SoundUrls(episode) : f \in DeleteFile(url, files) }
    /\ episode' = [episode EXCEPT
                      !.voice_audio_url = 0,
                      !.sounds_json = IF SoundUrls(episode) # {} THEN None ELSE @,
                      !.music_url = 0,
                      !.final_audio_url = 0]
    /\ last' = Returned("delete_files_audio")
    /\ UNCHANGED <<storage_path, project, service, uuid, run>>

\* An episode as generate_full leaves it after its last stage: the script,
\* the voice file, the final file, status DONE.
StoredDone(sfx, music) ==
    [ApplyScript(NewEpisode(TRUE, sfx, music),
                 ParseScriptResponse(
                     Response("none", FALSE, "object", ScriptKeys, "T1", <<GoodLine>>)).script)
        EXCEPT !.voice_audio_url = 1, !.final_audio_url = 2, !.status = "done"]

InitDone ==
    /\ storage_path \in StoragePaths
    /\ project = NoEpisodes
    /\ service = NoCall
    /\ \E sfx \in BOOLEAN, music \in BOOLEAN : episode = StoredDone(sfx, music)
    /\ files = SaveFile(2, "final", SaveFile(1, "voice", {}))
    /\ uuid = 2
    /\ run = Idle
    /\ last = NotEnded

NextDone ==
    \/ Next
    \/ DeleteMergedAudio
    \/ DeleteAudio

SpecDone == InitDone /\ [][NextDone]_vars

-----------------------------------------------------------------------------
(* ElevenLabsService.generate_dialogue_in_parts and _split_into_parts      *)
(* (services/elevenlabs_service.py).  A line is its position in the script *)
(* and len(line["text"]).                                                  *)

\* AUDIO_SETTINGS["max_chars_per_request"]
max_chars_per_request == 4800

\* The default of _split_into_parts' max_parts; no caller passes another.
max_parts == 3

\* The text lengths the model gives to lines.
TextLengths == { 0, 1000, 2400, 4800 }

RECURSIVE TotalChars(_)
\* sum(len(line["text"]) for line in lines)
TotalChars(lines) ==
    IF lines = <<>> THEN 0 ELSE Head(lines).text + TotalChars(Tail(lines))

RECURSIVE SplitLoop(_, _, _, _)
\* The for loop over the lines and the final append.  The comparison
\* current_length >= total_chars / max_parts is made on whole numbers.
mut_SplitLoopLosesPart(lines, total_chars, parts, current_part) ==
    IF lines = <<>>
    THEN IF current_part # <<>> THEN Append(parts, current_part) ELSE parts
    ELSE IF /\ TotalChars(current_part) * max_parts >= total_chars
            /\ Len(parts) < max_parts - 1
            /\ current_part # <<>>
         THEN SplitLoop(Tail(lines), total_chars, parts, <<Head(lines)>>)
         ELSE SplitLoop(Tail(lines), total_chars, parts,
                        Append(current_part, Head(lines)))

SplitLoop(lines, total_chars, parts, current_part) ==
    IF lines = <<>>
    THEN IF current_part # <<>> THEN Append(parts, current_part) ELSE parts
    ELSE IF /\ TotalChars(current_part) * max_parts >= total_chars
            /\ Len(parts) < max_parts - 1
            /\ current_part # <<>>
         THEN SplitLoop(Tail(lines), total_chars, Append(parts, current_part),
                        <<Head(lines)>>)
         ELSE SplitLoop(Tail(lines), total_chars, parts,
                        Append(current_part, Head(lines)))

SplitIntoParts(lines) ==
    IF TotalChars(lines) <= max_chars_per_request
    THEN <<lines>>
    ELSE SplitLoop(lines, TotalChars(lines), <<>>, <<>>)

\* generate_dialogue_in_parts(lines) called once.
InitDialogue ==
    /\ storage_path \in StoragePaths
    /\ project = NoEpisodes
    /\ \E n \in 0..MaxLines : \E text \in [1..n -> TextLengths] :
          service = [lines    |-> [i \in 1..n |-> [index |-> i, text |-> text[i]]],
                     pc       |-> "split",
                     parts    |-> <<>>,
                     requests |-> <<>>,
                     outcome  |-> "none"]
    /\ episode = NewEpisode(TRUE, FALSE, FALSE)
    /\ files = {}
    /\ uuid = 0
    /\ run = Idle
    /\ last = NotEnded

\* parts = self._split_into_parts(lines)
SplitScript ==
    /\ service.pc = "split"
    /\ service' = [service EXCEPT !.parts = SplitIntoParts(service.lines),
                                  !.pc = "requests"]
    /\ UNCHANGED <<storage_path, project, episode, files, uuid, run, last>>

\* One turn of the loop over the parts: text_to_dialogue(part) is sent and
\* gives audio, or raises ElevenLabsError.
TextToDialogue ==
    /\ service.pc = "requests"
    /\ IF Len(service.requests) < Len(service.parts)
       THEN \E ok \in BOOLEAN :
               service' = [service EXCEPT
                   !.requests = Append(@, service.parts[Len(@) + 1]),
                   !.pc = IF ok THEN @ ELSE "ended",
                   !.outcome = IF ok THEN @ ELSE "raised"]
       ELSE service' = [service EXCEPT !.pc = "ended", !.outcome = "returned"]
    /\ UNCHANGED <<storage_path, project, episode, files, uuid, run, last>>

NextDialogue ==
    \/ SplitScript
    \/ TextToDialogue

SpecDialogue == InitDialogue /\ [][NextDialogue]_vars

-----------------------------------------------------------------------------
(* The context of a script generation: the query for the previous episodes *)
(* in generate_script / generate_full and                                  *)
(* LLMService._build_generation_context.  A text is its length, 0 for a    *)
(* text that is None or empty.                                             *)

\* last_episode.script_text[:10000]
script_text_limit == 10000

\* The lengths of the summaries and script texts stored on episodes.
SummaryLengths == { 0, 500 }

ScriptTextLengths == { 0, 9000, 12000 }

\* text[:limit]
Truncate(text, limit) == IF text > limit THEN limit ELSE text

\* select(Episode).where(episode_number < n).order_by(episode_number), when
\* n > 1; the episodes are those of a project, numbered 1, 2, ...
PreviousEpisodes(episodes, n) ==
    IF n > 1 THEN SubSeq(episodes, 1, n - 1) ELSE <<>>

RECURSIVE Summaries(_)
\* for prev_ep in ...: if prev_ep.summary: the summary is added
Summaries(episodes) ==
    IF episodes = <<>> THEN <<>>
    ELSE (IF Head(episodes).summary # 0
          THEN <<[kind |-> "summary", episode_number |-> Head(episodes).episode_number,
                  chars |-> Head(episodes).summary]>>
          ELSE <<>>) \o Summaries(Tail(episodes))

\* The part of the context taken from the previous episodes: the summaries
\* of all but the last one, then the script text of the last one, cut.
mut_PreviousContextAllSummaries(previous_episodes) ==
    IF previous_episodes = <<>> THEN <<>>
    ELSE LET last_episode == previous_episodes[Len(previous_episodes)] IN
         Summaries(previous_episodes)
            \o (IF last_episode.script_text # 0
                THEN <<[kind |-> "script",
                        episode_number |-> last_episode.episode_number,
                        chars |-> Truncate(last_episode.script_text, script_text_limit)]>>
                ELSE <<>>)

PreviousContext(previous_episodes) ==
    IF previous_episodes = <<>> THEN <<>>
    ELSE LET last_episode == previous_episodes[Len(previous_episodes)] IN
         (IF Len(previous_episodes) > 1
          THEN Summaries(SubSeq(previous_episodes, 1, Len(previous_episodes) - 1))
          ELSE <<>>)
            \o (IF last_episode.script_text # 0
                THEN <<[kind |-> "script",
                        episode_number |-> last_episode.episode_number,
                        chars |-> Truncate(last_episode.script_text, script_text_limit)]>>
                ELSE <<>>)

\* A script is to be generated for episode n of a project whose episodes are
\* stored with or without a summary and a script text.
InitContext ==
    /\ storage_path \in StoragePaths
    /\ project = NoEpisodes
    /\ \E count \in 1..(MaxEpisodes + 1) :
       \E summary \in [1..count -> SummaryLengths] :
       \E script_text \in [1..count -> ScriptTextLengths] :
       \E n \in 1..count :
          service = [episodes |-> [i \in 1..count |->
                                     [episode_number |-> i, summary |-> summary[i],
                                      script_text |-> script_text[i]]],
                     episode_number |-> n,
                     pc |-> "query",
                     context |-> <<>>]
    /\ episode = NewEpisode(TRUE, FALSE, FALSE)
    /\ files = {}
    /\ uuid = 0
    /\ run = Idle
    /\ last = NotEnded

\* generate_script up to the call of the chat completion.
BuildGenerationContext ==
    /\ service.pc = "query"
    /\ service' = [service EXCEPT
          !.context = PreviousContext(
                         PreviousEpisodes(service.episodes, service.episode_number)),
          !.pc = "built"]
    /\ UNCHANGED <<storage_path, project, episode, files, uuid, run, last>>

NextContext == BuildGenerationContext

SpecContext == InitContext /\ [][NextContext]_vars

-----------------------------------------------------------------------------
(* CoverService.generate_cover_and_wait and generate_multiple_covers       *)
(* (services/cover_service.py).  Both callers leave max_wait_seconds and    *)
(* poll_interval at their defaults.                                        *)

max_wait_seconds == 180

poll_interval == 5

\* One generate_cover_and_wait coroutine: where it is, the seconds it has
\* counted, the polls it has made, the status of its last poll, and how it
\* ended.
NewCycle ==
    [pc |-> "submit", elapsed |-> 0, polls |-> 0, status |-> "",
     outcome |-> "", exc |-> NoException, url |-> 0]

Return(c, url) == [c EXCEPT !.pc = "ended", !.outcome = "returned", !.url = url]

Raise(c, exc) == [c EXCEPT !.pc = "ended", !.outcome = "raised", !.exc = exc]

\* What generate_cover (the submission) gives: a task id, a response without
\* one, or KieAIError for an HTTP or request error.
SubmitResults == { "task_id", "no_task_id", "http_error" }

\* result = await self.generate_cover(...); if not task_id: raise
Submit(c, result) ==
    IF result = "http_error"
    THEN Raise(c, KieAIError(<<"Task creation failed">>))
    ELSE IF result = "no_task_id"
    THEN Raise(c, KieAIError(<<"No task ID returned">>))
    ELSE [c EXCEPT !.pc = "poll"]

\* What get_task_status gives: the state of the task, lower-cased, with the
\* URL found for a success, or KieAIError for an HTTP or request error.
PollResults ==
    { [status |-> "success", url |-> TRUE], [status |-> "success", url |-> FALSE],
      [status |-> "failed", url |-> FALSE], [status |-> "error", url |-> FALSE],
      [status |-> "generating", url |-> FALSE],
      [status |-> "http_error", url |-> FALSE] }

\* One turn of the loop: sleep, count the interval, poll and branch.
mut_PollNoCount(c, result, url) ==
    LET polled == [c EXCEPT !.polls = @ + 1,
                            !.status = result.status]
    IN  IF result.status = "http_error"
        THEN Raise(polled, KieAIError(<<"Status check failed">>))
        ELSE IF result.status = "success"
        THEN IF result.url
             THEN Return(polled, url)
             ELSE Raise(polled, KieAIError(<<"Generation succeeded but no URL returned">>))
        ELSE IF result.status \in { "failed", "error" }
        THEN Raise(polled, KieAIError(<<"Generation failed">>))
        ELSE polled

Poll(c, result, url) ==
    LET polled == [c EXCEPT !.elapsed = @ + poll_interval,
                            !.polls = @ + 1,
                            !.status = result.status]
    IN  IF result.status = "http_error"
        THEN Raise(polled, KieAIError(<<"Status check failed">>))
        ELSE IF result.status = "success"
        THEN IF result.url
             THEN Return(polled, url)
             ELSE Raise(polled, KieAIError(<<"Generation succeeded but no URL returned">>))
        ELSE IF result.status \in { "failed", "error" }
        THEN Raise(polled, KieAIError(<<"Generation failed">>))
        ELSE polled

\* The loop condition fails: raise KieAIError("Generation timed out ...")
TimeOut(c) == Raise(c, KieAIError(<<"Generation timed out">>))

\* Cycle i of the call takes its next step; its URL is named after it.
SubmitCover(i) ==
    /\ service.cycles[i].pc = "submit"
    /\ \E result \in SubmitResults :
          service' = [service EXCEPT !.cycles[i] = Submit(@, result)]
    /\ UNCHANGED <<storage_path, project, episode, files, uuid, run, last>>

PollCover(i) ==
    /\ service.cycles[i].pc = "poll"
    /\ IF service.cycles[i].elapsed < max_wait_seconds
       THEN \E result \in PollResults :
               service' = [service EXCEPT !.cycles[i] = Poll(@, result, i)]
       ELSE service' = [service EXCEPT !.cycles[i] = TimeOut(@)]
    /\ UNCHANGED <<storage_path, project, episode, files, uuid, run, last>>

\* generate_cover_and_wait called once.
InitCycle ==
    /\ storage_path \in StoragePaths
    /\ project = NoEpisodes
    /\ service = [NoCall EXCEPT !.count = 1, !.cycles = <<NewCycle>>]
    /\ episode = NewEpisode(TRUE, FALSE, FALSE)
    /\ files = {}
    /\ uuid = 0
    /\ run = Idle
    /\ last = NotEnded

NextCycle ==
    \/ SubmitCover(1)
    \/ PollCover(1)

\* Every await of the coroutine completes: the HTTP calls have a timeout of
\* 30 s and asyncio.sleep returns.
SpecCycle == InitCycle /\ [][NextCycle]_vars /\ WF_vars(NextCycle)

\* count = max(1, min(4, count))
Clamp(count) == IF count < 1 THEN 1 ELSE IF count > 4 THEN 4 ELSE count

\* The count arguments the model passes.
Counts == 0..5

\* The polling loop of a cycle run to its end: it ends at a poll with a
\* terminal result or a failed status check, or it times out.
Wait(c, result, url) ==
    IF result.status = "generating" THEN TimeOut(c) ELSE Poll(c, result, url)

WaitCover(i) ==
    /\ service.cycles[i].pc = "poll"
    /\ \E result \in PollResults :
          service' = [service EXCEPT !.cycles[i] = Wait(@, result, i)]
    /\ UNCHANGED <<storage_path, project, episode, files, uuid, run, last>>

RECURSIVE Urls(_)
\* urls.append(result) for every result that is a str, in the order of tasks
Urls(cycles) ==
    IF cycles = <<>> THEN <<>>
    ELSE (IF Head(cycles).outcome = "returned" THEN <<Head(cycles).url>> ELSE <<>>)
            \o Urls(Tail(cycles))

\* asyncio.gather(*tasks, return_exceptions=True), then the filter.
mut_GatherFirstException ==
    /\ service.outcome = "none"
    /\ IF \E i \in 1..Len(service.cycles) : service.cycles[i].outcome = "raised"
       THEN service' = [service EXCEPT
                           !.outcome = "raised",
                           !.exc = KieAIError(<<"All cover generations failed">>)]
       ELSE /\ \A i \in 1..Len(service.cycles) : service.cycles[i].pc = "ended"
            /\ service' = [service EXCEPT !.outcome = "returned",
                                          !.urls = Urls(service.cycles)]
    /\ UNCHANGED <<storage_path, project, episode, files, uuid, run, last>>

Gather ==
    /\ service.outcome = "none"
    /\ \A i \in 1..Len(service.cycles) : service.cycles[i].pc = "ended"
    /\ IF Urls(service.cycles) = <<>>
       THEN service' = [service EXCEPT
                           !.outcome = "raised",
                           !.exc = KieAIError(<<"All cover generations failed">>)]
       ELSE service' = [service EXCEPT !.outcome = "returned",
                                       !.urls = Urls(service.cycles)]
    /\ UNCHANGED <<storage_path, project, episode, files, uuid, run, last>>

\* generate_multiple_covers(prompt, count) called once.
InitMultiple ==
    /\ storage_path \in StoragePaths
    /\ project = NoEpisodes
    /\ \E count \in Counts :
          service = [NoCall EXCEPT !.count = count,
                                   !.cycles = [i \in 1..Clamp(count) |-> NewCycle]]
    /\ episode = NewEpisode(TRUE, FALSE, FALSE)
    /\ files = {}
    /\ uuid = 0
    /\ run = Idle
    /\ last = NotEnded

NextMultiple ==
    \/ \E i \in 1..Len(service.cycles) : SubmitCover(i)
    \/ \E i \in 1..Len(service.cycles) : WaitCover(i)
    \/ Gather

SpecMultiple == InitMultiple /\ [][NextMultiple]_vars

-----------------------------------------------------------------------------
(* get_generation_status: GET /status/{episode_id}.  The request may come  *)
(* at any time, also while a generation request is at an await; `service`  *)
(* holds its response until it is returned.                                *)

\* all_steps
AllSteps(ep) ==
    <<"script", "voiceover">>
       \o (IF ep.include_sound_effects THEN <<"sounds">> ELSE <<>>)
       \o (IF ep.include_background_music THEN <<"music">> ELSE <<>>)
       \o <<"merge", "cover">>

\* status_to_step.get(status, 0)
StatusToStep(status) ==
    CASE status \in { "draft", "script_generating" }           -> 0
      [] status \in { "script_done", "voiceover_generating" }  -> 1
      [] status \in { "voiceover_done", "sounds_generating" }  -> 2
      [] status \in { "sounds_done", "music_generating" }      -> 3
      [] status \in { "music_done", "merging" }                -> 4
      [] status \in { "audio_done", "cover_generating" }       -> 5
      [] status = "done"                                       -> 6
      [] status = "error"                                      -> 0 - 1
      [] OTHER                                                 -> 0

\* bool(episode.sounds_json), bool(episode.script_json), bool(url)
SoundsTruthy(sounds_json) == sounds_json # None /\ sounds_json[1] # <<>>

ScriptTruthy(script_json) == script_json # None /\ DictTruthy(script_json[1])

GenerationStatusResponse(ep) ==
    LET all_steps        == AllSteps(ep)
        current_step_idx == StatusToStep(ep.status)
    IN  [outcome         |-> "response",
         status          |-> ep.status,
         current_step    |-> IF current_step_idx < 0 THEN "error"
                             ELSE IF current_step_idx >= Len(all_steps) THEN "done"
                             ELSE all_steps[current_step_idx + 1],
         steps_completed |-> IF current_step_idx < 0 THEN <<>>
                             ELSE IF current_step_idx >= Len(all_steps) THEN all_steps
                             ELSE SubSeq(all_steps, 1, current_step_idx),
         steps_remaining |-> IF current_step_idx < 0 THEN all_steps
                             ELSE IF current_step_idx >= Len(all_steps) THEN <<>>
                             ELSE SubSeq(all_steps, current_step_idx + 1, Len(all_steps)),
         error_message   |-> ep.error_message,
         script_ready    |-> ScriptTruthy(ep.script_json),
         voiceover_ready |-> ep.voice_audio_url # 0,
         sounds_ready    |-> IF ep.include_sound_effects
                             THEN SoundsTruthy(ep.sounds_json) ELSE TRUE,
         music_ready     |-> IF ep.include_background_music
                             THEN ep.music_url # 0 ELSE TRUE,
         audio_ready     |-> ep.final_audio_url # 0,
         cover_ready     |-> ep.cover_url # 0]

GetGenerationStatus ==
    /\ service.outcome = "none"
    /\ service' = GenerationStatusResponse(episode)
    /\ UNCHANGED <<storage_path, project, episode, files, uuid, run, last>>

\* The response is sent; the episode is as it was when it was computed.
StatusReturned ==
    /\ service.outcome = "response"
    /\ service' = NoCall
    /\ UNCHANGED <<storage_path, project, episode, files, uuid, run, last>>

\* The generation requests with status requests between their steps.
NextStatus ==
    \/ service.outcome = "none" /\ Next
    \/ GetGenerationStatus
    \/ StatusReturned

SpecStatus == Init /\ [][NextStatus]_vars

-----------------------------------------------------------------------------
(* Properties *)

\* The stages of run_full_pipeline in their fixed order.
PipelineOrder ==
    <<"script", "voiceover", "sounds", "music", "merge", "cover", "summary">>

StageIndex(stage) ==
    CASE stage = "script"    -> 1
      [] stage = "voiceover" -> 2
      [] stage = "sounds"    -> 3
      [] stage = "music"     -> 4
      [] stage = "merge"     -> 5
      [] stage = "cover"     -> 6
      [] stage = "summary"   -> 7
      [] OTHER               -> 0

\* The stages a run goes through: the optional ones only when their flag is set.
EnabledStages(ep, generate_cover) ==
    SelectSeq(PipelineOrder,
              LAMBDA s : CASE s = "sounds" -> ep.include_sound_effects
                           [] s = "music"  -> ep.include_background_music
                           [] s = "cover"  -> generate_cover
                           [] OTHER        -> TRUE)

IsPrefix(t, s) == Len(t) <= Len(s) /\ \A i \in 1..Len(t) : t[i] = s[i]

\* The artifact of a stage is recorded on the episode.
ArtifactRecorded(stage, ep) ==
    CASE stage = "script"    -> ep.script_json # None
      [] stage = "voiceover" -> ep.voice_audio_url # 0
      [] stage = "sounds"    -> ep.sounds_json # None
      [] stage = "music"     -> ep.music_url # 0
      [] stage = "merge"     -> ep.final_audio_url # 0
      [] stage = "cover"     -> ep.cover_url # 0
      [] OTHER               -> ep.summary # None

\* response.<stage>_status
StageStatusOf(response, stage) ==
    CASE stage = "script"    -> response.script_status
      [] stage = "voiceover" -> response.voiceover_status
      [] stage = "sounds"    -> response.sounds_status
      [] stage = "music"     -> response.music_status
      [] stage = "merge"     -> response.merge_status
      [] stage = "cover"     -> response.cover_status
      [] OTHER               -> "done"

\* The stages started so far are the first enabled stages in pipeline order,
\* every stage but the one last started has recorded its artifact and is
\* marked done, and a stage is marked skipped exactly when its flag is off.
OrderedRun(trace, response, generate_cover) ==
    /\ IsPrefix(trace, EnabledStages(episode, generate_cover))
    /\ \A i \in 1..(Len(trace) - 1) :
          /\ ArtifactRecorded(trace[i], episode)
          /\ StageStatusOf(response, trace[i]) = "done"
    /\ (response.sounds_status = "skipped") <=> ~episode.include_sound_effects
    /\ (response.music_status = "skipped") <=> ~episode.include_background_music
    /\ (response.cover_status = "skipped") <=> ~generate_cover

\* C1: in one generate_full execution the stages start in the order script,
\* voiceover, sounds, music, merge, cover, summary; a stage starts only when
\* the previous enabled stage has recorded its artifact; sounds, music and
\* cover are skipped exactly when include_sound_effects,
\* include_background_music and generate_cover are false; DONE is set only
\* after the summary was generated.
C1_StagesInOrder ==
    /\ run.op = "full" =>
          /\ OrderedRun(run.trace, run.response, run.generate_cover)
          /\ episode.status # "done"
    /\ last.op = "full" =>
          /\ OrderedRun(last.trace, last.response, last.generate_cover)
          /\ episode.status = "done" =>
                /\ last.trace[Len(last.trace)] = "summary"
                /\ episode.summary # None

\* A run with sound effects off and music on has reached the merge stage:
\* sounds was skipped, music started after the voiceover was recorded.
C1_Witness ==
    /\ run.op = "full"
    /\ run.trace = <<"script", "voiceover", "music", "merge">>
    /\ ~episode.include_sound_effects
    /\ run.response.sounds_status = "skipped"
    /\ run.response.music_status = "done"

\* The episode fields holding the artifacts of the stages before `stage`.
ArtifactsBefore(stage) ==
    (IF StageIndex(stage) > 1 THEN {"script_json", "script_text", "title"} ELSE {})
    \cup (IF StageIndex(stage) > 2 THEN {"voice_audio_url"} ELSE {})
    \cup (IF StageIndex(stage) > 3 THEN {"sounds_json"} ELSE {})
    \cup (IF StageIndex(stage) > 4 THEN {"music_url"} ELSE {})
    \cup (IF StageIndex(stage) > 5 THEN {"final_audio_url"} ELSE {})

\* A request ends in this step because an external call raised.
ExternalFailure == last' # last /\ last'.outcome = "raised" /\ last'.external

\* C2: when an external call raises during a stage, of a single-step
\* endpoint or of generate_full, the request ends in that step with the
\* exception raised to the caller: no later stage is started, nothing is
\* retried, status is ERROR, error_message is the message of the exception,
\* and the artifacts recorded by the earlier stages, fields and files, are
\* what they were.
C2_AbortOnExternalFailure ==
    [][ExternalFailure =>
          /\ run.op # "none"
          /\ run' = Idle
          /\ last'.stage = run.pc
          /\ last'.trace[Len(last'.trace)] = run.pc
          /\ episode'.status = "error"
          /\ episode'.error_message = Some(last'.exc.message)
          /\ \A f \in ArtifactsBefore(last'.stage) : episode'[f] = episode[f]
          /\ files \subseteq files']_vars

\* generate_full failed in the music stage, after the voiceover was recorded.
C2_Witness ==
    /\ last.op = "full"
    /\ last.outcome = "raised"
    /\ last.external
    /\ last.stage = "music"
    /\ episode.status = "error"
    /\ episode.voice_audio_url # 0
    /\ episode.error_message = Some(HttpError)

\* C3: for an episode with include_sound_effects and include_background_music
\* false, a generate_full in which no external call fails ends with
\* sounds_status and music_status "skipped", status DONE, final_audio_url set
\* and, when a cover was requested, cover_url set.
C3_FullRunWithoutExtras ==
    (/\ last.op = "full"
     /\ ~episode.include_sound_effects
     /\ ~episode.include_background_music
     /\ ~last.external) =>
        /\ last.response.sounds_status = "skipped"
        /\ last.response.music_status = "skipped"
        /\ episode.status = "done"
        /\ episode.final_audio_url # 0
        /\ last.generate_cover => episode.cover_url # 0

\* C4: error_message is set exactly when status is ERROR.
C4_ErrorMessageIffError ==
    (episode.error_message # None) <=> (episode.status = "error")

\* The episode has no script, or a script without lines.
NoLines(ep) ==
    IF ep.script_json = None THEN TRUE ELSE GetLines(ep.script_json[1]) = <<>>

\* A request of handler `op` arrives in this step: it is rejected, or it
\* starts.
Invoked(op) ==
    /\ run.op = "none"
    /\ \/ run'.op = op
       \/ run'.op = "none" /\ last'.op = op

\* The request that arrives in this step is rejected with a business-rule
\* error before anything is done.
RejectedUnchanged ==
    /\ run' = run
    /\ last'.outcome = "raised"
    /\ last'.exc.type = "BusinessLogicError"
    /\ last'.stage = "none"

\* C5: generate_voiceover on an episode without script, or whose script has
\* no lines, is rejected with a business-rule error; status, error_message,
\* voice_audio_url and the stored files are unchanged.
C5_VoiceoverNeedsLines ==
    [][(Invoked("voiceover") /\ NoLines(episode)) =>
          /\ RejectedUnchanged
          /\ episode'.status = episode.status
          /\ episode'.error_message = episode.error_message
          /\ episode'.voice_audio_url = episode.voice_audio_url
          /\ files' = files]_vars

\* What generate_sounds, generate_music and merge require of the episode.
PreconditionViolated(op, ep) ==
    CASE op = "sounds" -> ep.voice_audio_url = 0 \/ ~ep.include_sound_effects
      [] op = "music"  -> ep.voice_audio_url = 0 \/ ~ep.include_background_music
      [] op = "merge"  -> ep.voice_audio_url = 0

\* C6: generate_sounds (generate_music) without voice audio or with
\* include_sound_effects (include_background_music) false, and merge without
\* voice audio, raise a business-rule error before any external call; the
\* episode and the stored files are unchanged.
C6_PreconditionsRejected ==
    [][\A op \in {"sounds", "music", "merge"} :
          (Invoked(op) /\ PreconditionViolated(op, episode)) =>
             /\ RejectedUnchanged
             /\ episode' = episode
             /\ files' = files
             /\ uuid' = uuid]_vars

\* generate_sounds was rejected on an episode that has voice audio but whose
\* include_sound_effects is false.
C6_Witness ==
    /\ last.op = "sounds"
    /\ last.outcome = "raised"
    /\ last.exc = BusinessLogicError("Sound effects are disabled for this episode")
    /\ episode.voice_audio_url # 0
    /\ ~episode.include_sound_effects
    /\ episode.status = "voiceover_done"

\* The script writer replied, and the reply is malformed: the text is not
\* JSON, or the JSON lacks story_title, genre_tone or lines (a JSON value
\* that is no object has none of them), or lines is empty, or a line lacks
\* speaker or text.
Malformed(reply) ==
    /\ reply # NoReply
    /\ \/ reply.json = "text"
       \/ reply.prose /\ reply.fence = "none"
       \/ reply.json = "scalar"
       \/ {"story_title", "genre_tone", "lines"} \ reply.keys # {}
       \/ reply.lines = <<>>
       \/ \E i \in 1..Len(reply.lines) :
             {"speaker", "text"} \ reply.lines[i].keys # {}

\* C7: when the script writer returns malformed output, generate_script
\* raises the typed provider error, status becomes ERROR and script_json,
\* script_text and title keep the values they had before the call.
C7_MalformedScriptRejected ==
    [][(run.op = "script" /\ run'.op = "none" /\ Malformed(last'.reply)) =>
          /\ last'.outcome = "raised"
          /\ last'.exc.type = "LLMProviderError"
          /\ episode'.status = "error"
          /\ episode'.script_json = episode.script_json
          /\ episode'.script_text = episode.script_text
          /\ episode'.title = episode.title]_vars

\* The in-progress status of a handler, as the pipeline order names them.
InProgressStatus(op) ==
    CASE op = "script"    -> "script_generating"
      [] op = "voiceover" -> "voiceover_generating"
      [] op = "sounds"    -> "sounds_generating"
      [] op = "music"     -> "music_generating"
      [] op = "merge"     -> "merging"
      [] op = "cover"     -> "cover_generating"
      [] op = "full"      -> "script_generating"

\* The request of this step repeats the handler whose failure left the
\* episode in ERROR.
Retry ==
    /\ run.op = "none"
    /\ episode.status = "error"
    /\ last.outcome = "raised"
    /\ last.stage # "none"
    /\ run'.op = last.op

\* C8 as stated: status never moves to an earlier position of the pipeline
\* order except by entering ERROR, and a retry after ERROR enters the
\* in-progress status of the step that failed.
C8_StatusMonotonic ==
    [][/\ (episode.status # "error" /\ episode'.status # "error") =>
             StatusRank(episode'.status) >= StatusRank(episode.status)
       /\ Retry => episode'.status = InProgressStatus(last.stage)]_vars

\* C8 amended: while a request is served the status moves strictly forward
\* or enters ERROR, and generate_full commits the in-progress status of the
\* stage it starts; a request that starts sets the in-progress status of its
\* handler (SCRIPT_GENERATING for generate_full) whatever the status was; a
\* manual script edit sets SCRIPT_DONE unless the status is DRAFT or
\* SCRIPT_GENERATING; audio deletion sets SCRIPT_DONE; a rejected request
\* leaves the status alone.
C8_StatusWithinRequest ==
    [][/\ run.op # "none" =>
             \/ episode'.status = "error"
             \/ /\ StatusRank(episode'.status) > StatusRank(episode.status)
                /\ run'.op = "full" => episode'.status = InProgressStatus(run'.pc)
       /\ (run.op = "none" /\ run'.op # "none") =>
             episode'.status = InProgressStatus(run'.op)
       /\ (run.op = "none" /\ run'.op = "none" /\ last'.op = "update_script") =>
             episode'.status =
                IF last'.outcome = "returned"
                   /\ episode.status \notin {"draft", "script_generating"}
                THEN "script_done" ELSE episode.status
       /\ (run.op = "none" /\ run'.op = "none" /\ last'.op = "delete_audio") =>
             episode'.status = "script_done"
       /\ (run.op = "none" /\ run'.op = "none"
             /\ last'.op \notin {"update_script", "delete_audio"}) =>
             episode'.status = episode.status]_vars

\* generate_full was started again on an episode that carries the error of a
\* failed voiceover, sounds or music stage, and has advanced to the
\* voiceover stage.
C8_Witness ==
    /\ run.op = "full"
    /\ run.pc = "voiceover"
    /\ episode.status = "voiceover_generating"
    /\ episode.error_message = Some(HttpError)

\* The tracks the claim has merge hand to the mixer.
ExpectedTracks(ep) ==
    <<ep.voice_audio_url>>
    \o (IF ep.include_sound_effects /\ ep.sounds_json # None
        THEN [j \in 1..Len(ep.sounds_json[1]) |-> ep.sounds_json[1][j].url]
        ELSE <<>>)
    \o (IF ep.include_background_music /\ ep.music_url # 0
        THEN <<ep.music_url>> ELSE <<>>)

\* C9: a merge, of merge_audio or of generate_full, whose mixer does not
\* fail hands the mixer the voice, the sounds iff include_sound_effects and
\* the music iff include_background_music, whatever artifacts are recorded.
C9_MixerInputFollowsFlags ==
    (/\ last.op \in {"merge", "full"}
     /\ last.stage = "merge" \/ (last.op = "merge" /\ last.outcome = "returned")
     /\ ~last.external) =>
        last.mixed = ExpectedTracks(episode)

\* C10: generate_voiceover on an episode that has voice audio deletes the
\* stored voice file before the new one is written, so that the replaced
\* file is gone while the new audio is generated and after the request
\* returned.
C10_OldVoiceDeleted ==
    /\ (run.op = "voiceover" /\ run.old # 0) =>
          File(run.old, "voice") \notin files
    /\ (last.op = "voiceover" /\ last.outcome = "returned" /\ last.old # 0) =>
          File(last.old, "voice") \notin files

\* *_GENERATING and MERGING
InProgressStatuses ==
    { "script_generating", "voiceover_generating", "sounds_generating",
      "music_generating", "merging", "cover_generating" }

\* C11: while an invocation is running and the status is the in-progress
\* value it has set, no second invocation for the episode gets under way: a
\* step or generate_full invoked then refuses, without an external call and
\* without a state change.
C11_ConcurrentInvocationRefused ==
    [][(run.op # "none" /\ run.other.op = "none"
          /\ episode.status \in InProgressStatuses) =>
             run'.other.op = "none"]_vars

\* The row a project request named or created.
TargetRow(rows, ended) == CHOOSE r \in rows : r.id = ended.target

Created ==
    /\ last.op \in { "create_episode", "create_continuation" }
    /\ last.outcome = "returned"

\* C12: the episode numbers of a project are exactly 1..N with no gap and no
\* duplicate, N the number of its episodes, after any sequence of
\* create_episode, create_continuation and delete_episode; a creation gives
\* the new episode the number one above the highest there was.
C12_NumbersContiguous ==
    LET rows == project.episodes IN
    /\ { r.episode_number : r \in rows } = 1..Cardinality(rows)
    /\ Created =>
          /\ \E r \in rows : r.id = last.target
          /\ TargetRow(rows, last).episode_number = Cardinality(rows)
          /\ TargetRow(rows, last).episode_number
                = MaxEpisodeNumber(rows \ {TargetRow(rows, last)}) + 1

\* An episode is created as the second one after an episode with a voice
\* file was deleted.
C12_Witness ==
    /\ Created
    /\ Cardinality(project.episodes) = 2
    /\ uuid > 0
    /\ \A r \in project.episodes : r.voice_audio_url = 0

\* C13: delete_episode on an episode that is not the highest-numbered one of
\* its project raises the deletion error, and no episode is removed or
\* changed and no file is deleted.
C13_OnlyLastDeletable ==
    [][(/\ last'.op = "delete_episode"
        /\ \E r \in project.episodes :
              /\ r.id = last'.target
              /\ r.episode_number # MaxEpisodeNumber(project.episodes))
         => /\ last'.outcome = "raised"
            /\ last'.exc.type = "EpisodeDeletionError"
            /\ project' = project
            /\ files' = files]_vars

\* The deletion of episode 1 of 2, which has a voice file, was refused.
C13_Witness ==
    /\ last.op = "delete_episode"
    /\ last.outcome = "raised"
    /\ Cardinality(project.episodes) = 2
    /\ \E r \in project.episodes :
          /\ r.id = last.target
          /\ r.episode_number = 1
          /\ r.voice_audio_url # 0
          /\ File(r.voice_audio_url, "voice") \in files

\* The highest-numbered episode of the project.
LastEpisode(rows) ==
    CHOOSE r \in rows : r.episode_number = MaxEpisodeNumber(rows)

SelectedIndexes(ep) ==
    { j - 1 : j \in { n \in 1..Len(VariantList(ep)) : VariantList(ep)[n].selected } }

\* The URLs of the variants, in the order of the list.
VariantUrls(ep) == [j \in 1..Len(VariantList(ep)) |-> VariantList(ep)[j].url]

\* C15: an episode with variants has exactly one selected variant and its
\* cover_url is the URL of that variant; an episode without variants has no
\* cover_url.
C15_OneSelectedVariant ==
    IF VariantList(episode) # <<>>
    THEN \E i \in 0..(Len(VariantList(episode)) - 1) :
            /\ SelectedIndexes(episode) = {i}
            /\ episode.cover_url = VariantList(episode)[i + 1].url
    ELSE episode.cover_url = 0

\* The selected variant was deleted, the selection was then moved off the
\* first variant, and two variants remain.
C15_Witness ==
    /\ last.op = "select_cover"
    /\ last.outcome = "returned"
    /\ Len(VariantList(episode)) = 2
    /\ VariantUrls(episode) = <<2, 3>>
    /\ SelectedIndexes(episode) = {1}

\* C16: select_cover with an index below the number of variants makes that
\* variant the only selected one and its URL the cover_url, and leaves the
\* URLs of the variants, their order and the status as they were; with no
\* variants or an index not below their number it raises a business-rule
\* error and changes nothing.
C16_SelectCover ==
    [][last'.op = "select_cover" =>
          IF last'.target < Len(VariantList(episode))
          THEN /\ last'.outcome = "returned"
               /\ SelectedIndexes(episode') = {last'.target}
               /\ episode'.cover_url = VariantList(episode)[last'.target + 1].url
               /\ VariantUrls(episode') = VariantUrls(episode)
               /\ episode'.status = episode.status
               /\ files' = files
          ELSE /\ last'.outcome = "raised"
               /\ last'.exc.type = "BusinessLogicError"
               /\ episode' = episode
               /\ files' = files]_vars

\* The third of three variants was selected in place of another one.
C16_Witness ==
    /\ last.op = "select_cover"
    /\ last.outcome = "returned"
    /\ last.target = 2
    /\ Len(VariantList(episode)) = 3
    /\ VariantList(episode)[3].selected
    /\ ~VariantList(episode)[1].selected
    /\ episode.cover_url = VariantList(episode)[3].url

\* C17: delete_cover_variant removes exactly the variant at its index.  If
\* that variant was selected and others remain, the new first variant is the
\* selected one and its URL the cover_url; if it was not selected, the
\* selected variant and cover_url stay; if it was the last one, cover_url
\* becomes null and no variant is left.
C17_DeleteCoverVariant ==
    [][(last'.op = "delete_cover_variant" /\ last'.outcome = "returned") =>
          LET i       == last'.target
              before  == VariantList(episode)
              after   == VariantList(episode')
              removed == before[i + 1]
          IN  /\ i \in 0..(Len(before) - 1)
              /\ Len(after) = Len(before) - 1
              /\ \A j \in 1..Len(after) :
                    after[j].url = before[IF j <= i THEN j ELSE j + 1].url
              /\ IF Len(after) = 0
                 THEN episode'.cover_url = 0
                 ELSE IF removed.selected
                 THEN /\ SelectedIndexes(episode') = {0}
                      /\ episode'.cover_url = after[1].url
                 ELSE /\ \A j \in 1..Len(after) :
                            after[j].selected
                               = before[IF j <= i THEN j ELSE j + 1].selected
                      /\ episode'.cover_url = episode.cover_url]_vars

\* The selected variant, not the first one, was deleted with two remaining.
C17_Witness ==
    /\ last.op = "delete_cover_variant"
    /\ last.outcome = "returned"
    /\ last.target = 1
    /\ last.old = 2
    /\ VariantUrls(episode) = <<1, 3>>
    /\ SelectedIndexes(episode) = {0}
    /\ episode.cover_url = 1
    /\ uuid = 3

\* C18: generate_cover starts whatever the status and the artifacts of the
\* episode; while it generates, no cover file stored before is left; when
\* its generations do not all fail it ends with between one and four
\* variants, the first one selected and its URL the cover_url.
C18_GenerateCover ==
    [][/\ run'.op = "cover" => \A f \in files' : f.kind # "cover"
       /\ (last'.op = "cover" /\ ~last'.external) =>
             /\ last'.outcome = "returned"
             /\ Len(VariantList(episode')) \in 1..4
             /\ SelectedIndexes(episode') = {0}
             /\ episode'.cover_url = VariantList(episode')[1].url]_vars

TheCycle == service.cycles[1]

TerminalStatuses == { "success", "failed", "error" }

\* C19: one submit/poll cycle always ends.  Without a task id it fails
\* before any poll.  Its polls are one interval apart; it goes on polling
\* only after a poll that reported no terminal status, and ends at a poll
\* that reports success, with the URL, or failed or error, with a provider
\* failure.  It ends with the time-out failure, whose message is no
\* provider failure's, only after max_wait_seconds / poll_interval polls
\* none of which was terminal, and never polls more often than that.
C19_CycleTerminates ==
    /\ <>(TheCycle.pc = "ended")
    /\ [](/\ TheCycle.elapsed = TheCycle.polls * poll_interval
          /\ TheCycle.polls <= max_wait_seconds \div poll_interval
          /\ TheCycle.exc = KieAIError(<<"No task ID returned">>)
                => TheCycle.polls = 0
          /\ TheCycle.pc = "poll" => TheCycle.status \notin TerminalStatuses
          /\ (TheCycle.pc = "ended" /\ TheCycle.status = "success")
                => \/ TheCycle.outcome = "returned" /\ TheCycle.url # 0
                   \/ TheCycle.exc
                        = KieAIError(<<"Generation succeeded but no URL returned">>)
          /\ (TheCycle.pc = "ended" /\ TheCycle.status \in { "failed", "error" })
                => TheCycle.exc = KieAIError(<<"Generation failed">>)
          /\ TheCycle.outcome = "returned" => TheCycle.status = "success"
          /\ TheCycle.exc = KieAIError(<<"Generation timed out">>)
                => /\ TheCycle.polls = max_wait_seconds \div poll_interval
                   /\ TheCycle.status \notin TerminalStatuses)

\* The cycle timed out after its last poll.
C19_Witness ==
    /\ TheCycle.pc = "ended"
    /\ TheCycle.exc = KieAIError(<<"Generation timed out">>)
    /\ TheCycle.polls = max_wait_seconds \div poll_interval
    /\ TheCycle.status = "generating"

\* The cycles of the call that returned a URL.
Succeeded == { i \in 1..Len(service.cycles) : service.cycles[i].outcome = "returned" }

\* C20: generate_multiple_covers runs as many cycles as its count clamped
\* to 1..4, each on its own, and ends only when all of them have ended: a
\* cycle that failed or timed out leaves the others running.  It returns the
\* URLs of the cycles that succeeded, in the order the cycles were started,
\* and raises only when none succeeded.
C20_PartialSuccess ==
    /\ Len(service.cycles) \in 1..4
    /\ Len(service.cycles) = service.count \/ service.count \notin 1..4
    /\ service.outcome # "none" =>
          /\ \A i \in 1..Len(service.cycles) : service.cycles[i].pc = "ended"
          /\ service.outcome = "raised" <=> Succeeded = {}
          /\ service.outcome = "returned" =>
                /\ Len(service.urls) = Cardinality(Succeeded)
                /\ \A n \in 1..Len(service.urls) : service.urls[n] \in Succeeded
                /\ \A n \in 1..(Len(service.urls) - 1) :
                      service.urls[n] < service.urls[n + 1]

\* Of three cycles the first timed out and the third failed before it was
\* polled; the call returned the URL of the second.
C20_Witness ==
    /\ service.outcome = "returned"
    /\ Len(service.cycles) = 3
    /\ service.cycles[1].exc = KieAIError(<<"Generation timed out">>)
    /\ service.cycles[2].outcome = "returned"
    /\ service.cycles[3].exc = KieAIError(<<"Task creation failed">>)
    /\ service.urls = <<2>>

RECURSIVE Concat(_)
\* The parts joined in order.
Concat(parts) ==
    IF parts = <<>> THEN <<>> ELSE Head(parts) \o Concat(Tail(parts))

\* C21: _split_into_parts gives exactly one part when the total text length
\* is within max_chars_per_request, and otherwise at most three parts, none
\* of them empty; the parts joined in order are the lines it was given,
\* every line whole.
C21_SplitPreservesLines ==
    service.pc # "split" =>
       /\ Concat(service.parts) = service.lines
       /\ IF TotalChars(service.lines) <= max_chars_per_request
          THEN Len(service.parts) = 1
          ELSE /\ Len(service.parts) \in 1..3
               /\ \A p \in 1..Len(service.parts) : service.parts[p] # <<>>

\* Four lines, one of them with an empty text, were split into three parts.
C21_Witness ==
    /\ service.pc # "split"
    /\ Len(service.lines) = 4
    /\ \E i \in 1..4 : service.lines[i].text = 0
    /\ Len(service.parts) = 3

\* C30: when the text of every line is within max_chars_per_request, the
\* lines of every request sent to the voice provider, one request per part
\* of _split_into_parts, are within it in total.
C30_PartsWithinBudget ==
    (\A i \in 1..Len(service.lines) : service.lines[i].text <= max_chars_per_request)
       => \A r \in 1..Len(service.requests) :
             TotalChars(service.requests[r]) <= max_chars_per_request

\* The items of the context of one kind.
ContextItems(kind) ==
    { service.context[j] : j \in { k \in 1..Len(service.context) :
                                      service.context[k].kind = kind } }

\* C22: the context for the script of episode N > 1 holds the stored summary
\* of each of the episodes 1..N-2 and of no other, and the script text of
\* episode N-1 and of no other, cut to at most script_text_limit characters.
C22_ContinuationContext ==
    service.pc = "built" =>
       LET n == service.episode_number IN
       /\ ContextItems("summary")
             = { [kind |-> "summary", episode_number |-> k,
                  chars |-> service.episodes[k].summary] :
                    k \in { e \in 1..(n - 2) : service.episodes[e].summary # 0 } }
       /\ ContextItems("script")
             = { [kind |-> "script", episode_number |-> k,
                  chars |-> Truncate(service.episodes[k].script_text, script_text_limit)] :
                    k \in { e \in {n - 1} \cap 1..Len(service.episodes) :
                               service.episodes[e].script_text # 0 } }
       /\ \A j \in 1..Len(service.context) :
             service.context[j].kind = "script"
                => service.context[j].chars <= script_text_limit
       /\ Len(service.context)
             = Cardinality(ContextItems("summary")) + Cardinality(ContextItems("script"))

\* The context for episode 3: the summary of episode 1 and the script text
\* of episode 2 cut from 12000 characters, while episodes 2 and 1 also have
\* a summary and a script text.
C22_Witness ==
    /\ service.pc = "built"
    /\ service.episode_number = 3
    /\ service.episodes[2].summary # 0
    /\ service.episodes[1].script_text # 0
    /\ service.episodes[2].script_text = 12000
    /\ service.context
          = << [kind |-> "summary", episode_number |-> 1, chars |-> 500],
               [kind |-> "script", episode_number |-> 2, chars |-> 10000] >>

\* The steps of the status response that are enabled for the episode.
EnabledSteps(ep) ==
    SelectSeq(EnabledStages(ep, TRUE), LAMBDA s : s # "summary")

\* The stage of a step has finished, going by the status of the episode.
StepFinished(step, status) ==
    StatusRank(status) >=
       CASE step = "script"    -> StatusRank("script_done")
         [] step = "voiceover" -> StatusRank("voiceover_done")
         [] step = "sounds"    -> StatusRank("sounds_done")
         [] step = "music"     -> StatusRank("music_done")
         [] step = "merge"     -> StatusRank("audio_done")
         [] OTHER              -> StatusRank("done")

\* C23: the status response splits the enabled steps of the episode, in
\* pipeline order, into steps_completed and steps_remaining; unless the
\* status is ERROR, steps_completed holds exactly the enabled steps whose
\* stage has finished, so that while the status is MERGING the current step
\* is merge and merge is among the remaining steps; with status ERROR the
\* response carries the error_message of the episode.
C23_StatusSteps ==
    service.outcome = "response" =>
       /\ service.steps_completed \o service.steps_remaining = EnabledSteps(episode)
       /\ episode.status # "error" =>
             service.steps_completed
                = SelectSeq(EnabledSteps(episode),
                            LAMBDA s : StepFinished(s, episode.status))
       /\ episode.status = "merging" =>
             /\ service.current_step = "merge"
             /\ \E j \in 1..Len(service.steps_remaining) :
                   service.steps_remaining[j] = "merge"
       /\ episode.status = "error" => service.error_message = episode.error_message

\* C26: in the status response sounds_ready (music_ready) is true exactly
\* when the sounds (music) stage is disabled or has completed, also when the
\* sounds stage completed without a cue and recorded an empty list;
\* script_ready, voiceover_ready, audio_ready and cover_ready are true
\* exactly when the artifact is recorded (for the script: a JSON object
\* that is not empty).
C26_ReadinessFlags ==
    service.outcome = "response" =>
       /\ service.sounds_ready
             <=> (~episode.include_sound_effects \/ episode.sounds_json # None)
       /\ service.music_ready
             <=> (~episode.include_background_music \/ episode.music_url # 0)
       /\ service.script_ready
             <=> (episode.script_json # None /\ episode.script_json[1].keys # {})
       /\ service.voiceover_ready <=> ArtifactRecorded("voiceover", episode)
       /\ service.audio_ready <=> ArtifactRecorded("merge", episode)
       /\ service.cover_ready <=> ArtifactRecorded("cover", episode)

\* C24: the Episode a creation request constructs has each generation flag
\* equal to the value the request body carried, and equal to the project's
\* default only when the body did not carry the flag; an explicit false in
\* the body wins over a project default of true.
C24_FlagsFromRequest ==
    (last.op \in { "create_episode", "create_continuation" } /\ last.outcome = "returned")
        => /\ last.created[1] = IF last.body[1] # None THEN last.body[1][1]
                                 ELSE project.include_sound_effects
           /\ last.created[2] = IF last.body[2] # None THEN last.body[2][1]
                                 ELSE project.include_background_music

\* The URLs an episode records: voice, final audio, music, cover, every cover
\* variant and every generated sound effect.
OwnedBlobs(ep) ==
    FilesToDelete(ep) \cup SoundUrls(ep)

\* C25: after a successful delete_episode the episode's record is gone and
\* no blob the episode recorded is left in the store.
C25_DeleteRemovesBlobs ==
    (last.op = "delete_episode" /\ last.outcome = "returned")
        => /\ \A row \in project.episodes : row.id # last.target
           /\ \A f \in files : f.name \notin OwnedBlobs(episode)

\* C27: creation requests for one project whose steps interleave never leave
\* two episodes of the project with the same episode_number.
C27_NoDuplicateNumbers ==
    \A r1 \in project.episodes : \A r2 \in project.episodes :
        r1.episode_number = r2.episode_number => r1.id = r2.id

\* C29: whenever no request is being served, each URL the episode records
\* (voice audio, cover, every cover variant) names a file of the store; a
\* generate_voiceover or generate_cover request that failed after removing
\* the old file has not left the episode with the URL of the removed file.
C29_UrlsNameStoredBlobs ==
    run.op = "none" =>
        \A url \in ({ episode.voice_audio_url, episode.cover_url } \ {0})
                     \cup { VariantList(episode)[i].url :
                               i \in 1..Len(VariantList(episode)) } :
            \E f \in files : f.name = url

====
